---- MODULE Spec2Model ----
(***************************************************************************)
(* Model of the retrieval-and-serving core of src/backend/main.py: the     *)
(* access gate (origin validation, per-IP hourly/daily and global daily    *)
(* quotas), the query-embedding cache and the two chat endpoints.          *)
(*                                                                         *)
(* Text values (header values, questions) are sequences of tokens; a token *)
(* stands for the run of characters it spells, so prefix tests, trimming   *)
(* and case folding are computed on the sequences.  Time is counted in     *)
(* ticks; the quota ceilings and the two window lengths are scaled down    *)
(* (the source values are 20, 100, 500, 3600 s and 86400 s).               *)
(***************************************************************************)
EXTENDS Integers, Sequences, FiniteSets, TLC

(***************************************************************************)
(* Bounds                                                                  *)
(***************************************************************************)
RATE_LIMIT == 2
DAILY_LIMIT == 3
GLOBAL_DAILY_LIMIT == 4
HourSecs == 2
DaySecs == 3
MaxTime == 3
MaxLate == 4

EMBEDDING_CACHE_SIZE == 2
MaxFragments == 1
MaxStreams == 1

ExcerptLen == 2
YearsShown == 2

TOP_K_PAPERS == 5
TOP_K_CHUNKS == 6
MAX_PER_PAPER == 2

MaxCorpus == 3
MaxTopK == 3
MaxPerPaper == 2

VARIABLES
    clock,                  \* time.time(), in ticks
    request_counts,         \* request_counts: ip -> list of timestamps
    global_request_times,   \* global_request_times: list of timestamps
    embedding_cache,        \* embedding_cache: OrderedDict, oldest entry first
    config,                 \* what load_data and the environment provided
    streams,                \* event streams of /chat/stream responses in flight
    response,               \* outcome of the handler that has just run
    admitted,               \* history: ip -> timestamps of its admitted requests
    probe                   \* input and result of a function under test

vars == <<clock, request_counts, global_request_times, embedding_cache,
          config, streams, response, admitted, probe>>

(***************************************************************************)
(* Generic helpers                                                         *)
(***************************************************************************)
Min(a, b) == IF a <= b THEN a ELSE b

Range(s) == {s[i] : i \in 1..Len(s)}

\* [t for t in seq if t > cutoff]
NewerThan_ge(seq, cutoff) == SelectSeq(seq, LAMBDA t : t >= cutoff)

NewerThan(seq, cutoff) == SelectSeq(seq, LAMBDA t : t > cutoff)

CountNewer_all(seq, cutoff) == Len(seq)

\* sum(1 for t in seq if t > cutoff)
CountNewer(seq, cutoff) == Len(NewerThan(seq, cutoff))

\* str.startswith(prefix)
StartsWith(s, prefix) ==
    /\ Len(prefix) <= Len(s)
    /\ SubSeq(s, 1, Len(prefix)) = prefix

RECURSIVE LStrip(_)
LStrip(s) == IF s # <<>> /\ Head(s) = " " THEN LStrip(Tail(s)) ELSE s

RECURSIVE RStrip(_)
RStrip(s) ==
    IF s # <<>> /\ s[Len(s)] = " " THEN RStrip(SubSeq(s, 1, Len(s) - 1)) ELSE s

\* str.strip()
Strip(s) == RStrip(LStrip(s))

\* str.split(",")[0]
RECURSIVE SplitFirst(_)
SplitFirst(s) ==
    IF s = <<>> \/ Head(s) = "," THEN <<>> ELSE <<Head(s)>> \o SplitFirst(Tail(s))

\* the text a one-token sequence spells ("" for the empty sequence)
Text(s) == IF s = <<>> THEN "" ELSE s[1]

(***************************************************************************)
(* Access gate: origin validation                                          *)
(***************************************************************************)
ALLOWED_ORIGINS ==
    << <<"https://", "kordinglab.com">>,
       <<"https://", "www.", "kordinglab.com">>,
       <<"https://", "kordinglab.github.io">>,
       <<"http://", "localhost", ":8000">>,
       <<"http://", "localhost", ":3000">>,
       <<"http://", "127.0.0.1", ":8000">> >>

LOOPBACK == {"127.0.0.1", "::1", "localhost"}

NoClient == "none"

\* values of the Origin header ("" when absent)
OriginValues ==
    { <<>>,
      <<"https://", "kordinglab.com">>,
      <<"https://", "kordinglab.com", "/page">>,
      <<"https://", "evil.example">>,
      <<"https://", "kordinglab.com", ".evil.example">>,
      <<"http://", "localhost", ":3000">>,
      <<"http://", "localhost">> }

\* values of the Referer header ("" when absent)
RefererValues ==
    { <<>>,
      <<"https://", "kordinglab.github.io", "/awesome-computational-primatology/">>,
      <<"https://", "www.", "kordinglab.com", "/chat">>,
      <<"https://", "evil.example", "/x">>,
      <<"kordinglab.com">> }

\* values of the X-Forwarded-For header (<<>> when absent)
ForwardedValues ==
    { <<>>,
      <<"203.0.113.7">>,
      <<" ", "203.0.113.7", " ", ",", "127.0.0.1">>,
      <<"127.0.0.1", ",", " ", "203.0.113.7">>,
      <<"::1">> }

\* request.client.host, NoClient when request.client is None
ClientHosts == {"127.0.0.1", "203.0.113.7", "localhost", NoClient}

AllRequests ==
    [origin : OriginValues, referer : RefererValues,
     forwarded : ForwardedValues, client : ClientHosts]

get_client_ip(request) ==
    IF request.forwarded # <<>>
    THEN Text(Strip(SplitFirst(request.forwarded)))
    ELSE IF request.client # NoClient THEN request.client ELSE "unknown"

MatchesAllowed(value) ==
    \E i \in 1..Len(ALLOWED_ORIGINS) : StartsWith(value, ALLOWED_ORIGINS[i])

validate_origin_loose(request) ==
    \/ request.origin # <<>> /\ MatchesAllowed(request.origin)
    \/ request.referer # <<>> /\ MatchesAllowed(request.referer)
    \/ get_client_ip(request) \in LOOPBACK

validate_origin(request) ==
    IF request.origin # <<>> /\ MatchesAllowed(request.origin) THEN TRUE
    ELSE IF request.referer # <<>> /\ MatchesAllowed(request.referer) THEN TRUE
    ELSE IF request.origin = <<>> /\ request.referer = <<>>
              /\ get_client_ip(request) \in LOOPBACK THEN TRUE
    ELSE FALSE

(***************************************************************************)
(* Access gate: quotas                                                     *)
(***************************************************************************)
GlobalLimitReached_gt(n) == n > GLOBAL_DAILY_LIMIT

GlobalLimitReached(n) == n >= GLOBAL_DAILY_LIMIT

HourlyLimitReached_gt(hourly) == hourly > RATE_LIMIT

HourlyLimitReached(hourly) == hourly >= RATE_LIMIT

DailyLimitReached_gt(daily) == daily > DAILY_LIMIT

DailyLimitReached(daily) == daily >= DAILY_LIMIT

RemainingQuota_hourly(hourly, daily) == RATE_LIMIT - hourly

RemainingQuota(hourly, daily) == Min(RATE_LIMIT - hourly, DAILY_LIMIT - daily)

\* The result carries the two collections as the call leaves them.
check_rate_limit(ip, now, counts, globalTimes) ==
    LET hour_ago == now - HourSecs
        day_ago == now - DaySecs
        cleanedGlobal == NewerThan(globalTimes, day_ago)
    IN  IF GlobalLimitReached(Len(cleanedGlobal))
        THEN [allowed |-> FALSE, remaining |-> 0, reason |-> "global_limit",
              request_counts |-> counts, global_request_times |-> cleanedGlobal]
        ELSE LET cleaned == [counts EXCEPT ![ip] = NewerThan(@, day_ago)]
                 hourly == CountNewer(cleaned[ip], hour_ago)
                 daily == Len(cleaned[ip])
             IN  IF HourlyLimitReached(hourly)
                 THEN [allowed |-> FALSE, remaining |-> 0, reason |-> "hourly_limit",
                       request_counts |-> cleaned,
                       global_request_times |-> cleanedGlobal]
                 ELSE IF DailyLimitReached(daily)
                 THEN [allowed |-> FALSE, remaining |-> 0, reason |-> "daily_limit",
                       request_counts |-> cleaned,
                       global_request_times |-> cleanedGlobal]
                 ELSE [allowed |-> TRUE, remaining |-> RemainingQuota(hourly, daily),
                       reason |-> "ok",
                       request_counts |-> cleaned,
                       global_request_times |-> cleanedGlobal]

\* request_counts[client_ip].append(now)
RecordForIp_skip(counts, ip, now) == counts

RecordForIp(counts, ip, now) == [counts EXCEPT ![ip] = Append(@, now)]

\* global_request_times.append(now)
RecordGlobal_twice(globalTimes, now) == Append(Append(globalTimes, now), now)

RecordGlobal(globalTimes, now) == Append(globalTimes, now)

(***************************************************************************)
(* Questions and the embedding cache                                       *)
(***************************************************************************)
META_KEYWORDS ==
    { "how many", "statistics", "underrepresented", "gaps", "trends",
      "most common", "least common", "overview", "summary", "distribution",
      "breakdown", "total", "count", "popular", "rare", "missing",
      "what species", "which species", "all papers", "dataset" }

\* questions a client may send
Questions ==
    { <<"Pose">>,
      <<" ", "pose", " ">>,
      <<"face">>,
      <<"gaze">>,
      <<"How many", " ", "macaques">> }

\* str.lower() of one token
LowerToken(tok) ==
    CASE tok = "Pose" -> "pose"
      [] tok = "How many" -> "how many"
      [] OTHER -> tok

\* str.lower()
Lower(s) == [i \in 1..Len(s) |-> LowerToken(s[i])]

is_meta_question_cased(question) ==
    \E i \in 1..Len(question) : question[i] \in META_KEYWORDS

\* any(kw in q_lower for kw in META_KEYWORDS)
is_meta_question(question) ==
    \E i \in 1..Len(question) : Lower(question)[i] \in META_KEYWORDS

\* hashlib.md5(...).hexdigest(): one digest per text, no collisions modelled
Md5(s) == <<"md5", s>>

CacheKey_raw(query) == Md5(query)

CacheKey(query) == Md5(Strip(Lower(query)))

\* model.encode([query])[0].tolist(): the collaborator sees the raw query
Encode(query) ==
    CASE query = <<"Pose">> -> <<3, 1>>
      [] query = <<" ", "pose", " ">> -> <<3, 2>>
      [] query = <<"face">> -> <<1, 3>>
      [] query = <<"gaze">> -> <<2, 2>>
      [] OTHER -> <<1, 1>>

CacheKeys(cache) == {cache[i].key : i \in 1..Len(cache)}

CacheValue(cache, key) ==
    (CHOOSE e \in Range(cache) : e.key = key).value

MoveToEnd_stay(cache, key) == cache

\* OrderedDict.move_to_end(key)
MoveToEnd(cache, key) ==
    SelectSeq(cache, LAMBDA e : e.key # key)
        \o SelectSeq(cache, LAMBDA e : e.key = key)

EvictOldest_never(cache) == cache

\* while len(embedding_cache) > EMBEDDING_CACHE_SIZE: popitem(last=False)
RECURSIVE EvictOldest(_)
EvictOldest(cache) ==
    IF Len(cache) > EMBEDDING_CACHE_SIZE THEN EvictOldest(Tail(cache)) ELSE cache

get_query_embedding_poison(query, cache, encodeOk) ==
    LET cache_key == CacheKey(query)
    IN  IF cache_key \in CacheKeys(cache)
        THEN [ok |-> TRUE, value |-> CacheValue(cache, cache_key),
              cache |-> MoveToEnd(cache, cache_key),
              key |-> cache_key, hit |-> TRUE, encoded |-> FALSE]
        ELSE [ok |-> encodeOk,
              value |-> IF encodeOk THEN Encode(query) ELSE <<>>,
              cache |-> EvictOldest(Append(cache,
                            [key |-> cache_key,
                             value |-> IF encodeOk THEN Encode(query)
                                                   ELSE <<>>])),
              key |-> cache_key, hit |-> FALSE, encoded |-> TRUE]

\* encodeOk: whether the embedding collaborator answers (it raises otherwise).
\* encoded tells whether the collaborator was invoked by this call.
get_query_embedding(query, cache, encodeOk) ==
    LET cache_key == CacheKey(query)
    IN  IF cache_key \in CacheKeys(cache)
        THEN [ok |-> TRUE, value |-> CacheValue(cache, cache_key),
              cache |-> MoveToEnd(cache, cache_key),
              key |-> cache_key, hit |-> TRUE, encoded |-> FALSE]
        ELSE IF encodeOk
        THEN [ok |-> TRUE, value |-> Encode(query),
              cache |-> EvictOldest(Append(cache,
                            [key |-> cache_key, value |-> Encode(query)])),
              key |-> cache_key, hit |-> FALSE, encoded |-> TRUE]
        ELSE [ok |-> FALSE, value |-> <<>>, cache |-> cache,
              key |-> cache_key, hit |-> FALSE, encoded |-> TRUE]

(***************************************************************************)
(* Similarity search                                                       *)
(*                                                                         *)
(* Embeddings are vectors of integers.  A similarity is the float that     *)
(* cosine_similarity returns: nan, or the cosine, which is kept as the     *)
(* exact fraction sign(dot) * dot^2 / (|a|^2 * |b|^2); fractions order     *)
(* and equate the cosines as the floats do, rounding aside.                *)
(***************************************************************************)
RECURSIVE DotUpTo(_, _, _)
DotUpTo(a, b, n) ==
    IF n = 0 THEN 0 ELSE DotUpTo(a, b, n - 1) + a[n] * b[n]

\* np.dot(a, b)
Dot(a, b) == DotUpTo(a, b, Len(a))

\* the float nan: numpy's answer to 0 / 0.0 (a warning, no exception)
NaN == [nan |-> TRUE, num |-> 0, den |-> 0]

\* np.dot(a, b) / (np.linalg.norm(a) * np.linalg.norm(b)); a vector of norm
\* zero makes both the dot product and the divisor zero
cosine_similarity(a, b) ==
    LET dot == Dot(a, b)
        norms == Dot(a, a) * Dot(b, b)
    IN  IF norms = 0
        THEN NaN
        ELSE [nan |-> FALSE,
              num |-> IF dot < 0 THEN -(dot * dot) ELSE dot * dot,
              den |-> norms]

SimLess_le(x, y) == ~x.nan /\ ~y.nan /\ x.num * y.den <= y.num * x.den

\* x < y on floats: false when either side is nan
SimLess(x, y) == ~x.nan /\ ~y.nan /\ x.num * y.den < y.num * x.den

\* the number of entries at the end of sorted that an entry with this key
\* moves ahead of
RECURSIVE Overtaken(_, _)
Overtaken(sorted, key) ==
    IF sorted # <<>> /\ SimLess(sorted[Len(sorted)].similarity, key)
    THEN 1 + Overtaken(SubSeq(sorted, 1, Len(sorted) - 1), key)
    ELSE 0

\* similarities.sort(key=similarity, reverse=True): a stable sort, in which
\* an entry moves ahead of another only if the other's key is less than its
\* own.  Where entries with a nan key end up depends on the sort's merge
\* strategy; here they stay where insertion leaves them.
RECURSIVE SortDescending(_)
SortDescending(seq) ==
    IF seq = <<>>
    THEN <<>>
    ELSE LET sorted == SortDescending(SubSeq(seq, 1, Len(seq) - 1))
             entry == seq[Len(seq)]
             k == Len(sorted) - Overtaken(sorted, entry.similarity)
         IN  SubSeq(sorted, 1, k) \o <<entry>>
                 \o SubSeq(sorted, k + 1, Len(sorted))

\* identifiers of papers and of chunks (section_chunker.py: the chunk_id
\* starts with the id of the paper)
PaperId(i) == <<"paper", i>>

ChunkId(paper_id, i) == <<paper_id, "body", i>>

search_papers_fill(query, top_k, cfg, cache, encodeOk) ==
    IF cfg.embeddings_data = <<>>
    THEN [ok |-> TRUE, results |-> <<>>, cache |-> cache,
          trace |-> <<"search_papers">>]
    ELSE LET emb == get_query_embedding(query, cache, encodeOk)
             similarities ==
                 [i \in 1..Len(cfg.embeddings_data) |->
                     [id |-> cfg.embeddings_data[i].id,
                      similarity |->
                          cosine_similarity(emb.value,
                                            cfg.embeddings_data[i].embedding)]]
             ranked == SortDescending(similarities)
             known == SelectSeq(ranked, LAMBDA e : e.id \in cfg.papers_lookup)
             found == SubSeq(known, 1, Min(top_k, Len(known)))
             trace == <<"search_papers", "get_query_embedding">>
                          \o (IF emb.encoded THEN <<"encode">> ELSE <<>>)
         IN  IF ~emb.ok
             THEN [ok |-> FALSE, results |-> <<>>, cache |-> emb.cache,
                   trace |-> trace]
             ELSE [ok |-> TRUE,
                   results |->
                       [i \in 1..Len(found) |->
                           [id |-> found[i].id,
                            relevance_score |-> found[i].similarity]],
                   cache |-> emb.cache, trace |-> trace]

\* search_papers, called by the handlers with top_k = 5
search_papers(query, top_k, cfg, cache, encodeOk) ==
    IF cfg.embeddings_data = <<>>
    THEN [ok |-> TRUE, results |-> <<>>, cache |-> cache,
          trace |-> <<"search_papers">>]
    ELSE LET emb == get_query_embedding(query, cache, encodeOk)
             similarities ==
                 [i \in 1..Len(cfg.embeddings_data) |->
                     [id |-> cfg.embeddings_data[i].id,
                      similarity |->
                          cosine_similarity(emb.value,
                                            cfg.embeddings_data[i].embedding)]]
             ranked == SortDescending(similarities)
             top == SubSeq(ranked, 1, Min(top_k, Len(ranked)))
             found == SelectSeq(top, LAMBDA e : e.id \in cfg.papers_lookup)
             trace == <<"search_papers", "get_query_embedding">>
                          \o (IF emb.encoded THEN <<"encode">> ELSE <<>>)
         IN  IF ~emb.ok
             THEN [ok |-> FALSE, results |-> <<>>, cache |-> emb.cache,
                   trace |-> trace]
             ELSE [ok |-> TRUE,
                   results |->
                       [i \in 1..Len(found) |->
                           [id |-> found[i].id,
                            relevance_score |-> found[i].similarity]],
                   cache |-> emb.cache, trace |-> trace]

\* the number of accepted chunks of the paper
CountPaper(results, paper_id) ==
    Len(SelectSeq(results, LAMBDA c : c.paper_id = paper_id))

CapReached_gt(count, max_per_paper) == count > max_per_paper

\* paper_counts[paper_id] >= max_per_paper
CapReached(count, max_per_paper) == count >= max_per_paper

\* the loop of lines 418-431 from entry i of the ranked list on.  A chunk
\* and its embedding entry name the same paper (build_chunk_index.py writes
\* both from one chunk), so paper_counts is the count over the results.
RECURSIVE ChunkLoop(_, _, _, _, _, _)
ChunkLoop(ranked, i, results, lookup, top_k, max_per_paper) ==
    IF i > Len(ranked)
    THEN results
    ELSE IF CapReached(CountPaper(results, ranked[i].paper_id), max_per_paper)
    THEN ChunkLoop(ranked, i + 1, results, lookup, top_k, max_per_paper)
    ELSE LET accepted ==
                 IF ranked[i].chunk_id \in lookup
                 THEN Append(results,
                             [chunk_id |-> ranked[i].chunk_id,
                              paper_id |-> ranked[i].paper_id,
                              relevance_score |-> ranked[i].similarity])
                 ELSE results
         IN  IF Len(accepted) >= top_k
             THEN accepted
             ELSE ChunkLoop(ranked, i + 1, accepted, lookup, top_k,
                            max_per_paper)

\* search_chunks, called by the handlers with top_k = 6, max_per_paper = 2
search_chunks(query, top_k, max_per_paper, cfg, cache, encodeOk) ==
    IF cfg.chunk_embeddings = <<>>
    THEN [ok |-> TRUE, results |-> <<>>, cache |-> cache,
          trace |-> <<"search_chunks">>]
    ELSE LET emb == get_query_embedding(query, cache, encodeOk)
             similarities ==
                 [i \in 1..Len(cfg.chunk_embeddings) |->
                     [chunk_id |-> cfg.chunk_embeddings[i].chunk_id,
                      paper_id |-> cfg.chunk_embeddings[i].paper_id,
                      similarity |->
                          cosine_similarity(emb.value,
                                            cfg.chunk_embeddings[i].embedding)]]
             trace == <<"search_chunks", "get_query_embedding">>
                          \o (IF emb.encoded THEN <<"encode">> ELSE <<>>)
         IN  IF ~emb.ok
             THEN [ok |-> FALSE, results |-> <<>>, cache |-> emb.cache,
                   trace |-> trace]
             ELSE [ok |-> TRUE,
                   results |-> ChunkLoop(SortDescending(similarities), 1, <<>>,
                                         cfg.chunk_lookup, top_k,
                                         max_per_paper),
                   cache |-> emb.cache, trace |-> trace]

(***************************************************************************)
(* Corpus files and dataset statistics                                     *)
(*                                                                         *)
(* A paper is [id, animal, topics, year].  animal and topics are texts     *)
(* (token sequences, "," and " " being tokens of their own), KeyAbsent     *)
(* when the paper has no such key and <<>> for "" or null; year is a       *)
(* number, 0 when it is absent or null.  A tag is one token.               *)
(***************************************************************************)
KeyAbsent == <<"(no key)">>

\* dict.get(key, default)
GetOr(value, default) == IF value = KeyAbsent THEN default ELSE value

\* str.split(",")
RECURSIVE Split(_)
Split(s) ==
    LET first == SplitFirst(s)
    IN  IF Len(first) = Len(s)
        THEN <<first>>
        ELSE <<first>> \o Split(SubSeq(s, Len(first) + 2, Len(s)))

\* the stripped, non-empty parts of text.split(','), in order
TagsOf(text) ==
    SelectSeq([i \in 1..Len(Split(text)) |-> Text(Strip(Split(text)[i]))],
              LAMBDA tag : tag # "")

\* counts[key] += 1 on a defaultdict(int); a dict keeps its keys in the
\* order of their insertion
Increment(counts, key) ==
    IF \E i \in 1..Len(counts) : counts[i].key = key
    THEN [i \in 1..Len(counts) |->
             IF counts[i].key = key
             THEN [counts[i] EXCEPT !.count = @ + 1]
             ELSE counts[i]]
    ELSE Append(counts, [key |-> key, count |-> 1])

RECURSIVE IncrementAll(_, _)
IncrementAll(counts, keys) ==
    IF keys = <<>> THEN counts
    ELSE IncrementAll(Increment(counts, Head(keys)), Tail(keys))

\* lines 166-175: species_counts
RECURSIVE SpeciesCounts(_)
SpeciesCounts(papers) ==
    IF papers = <<>> THEN <<>>
    ELSE IncrementAll(SpeciesCounts(SubSeq(papers, 1, Len(papers) - 1)),
                      TagsOf(GetOr(papers[Len(papers)].animal, <<"Unknown">>)))

\* lines 177-185: topic_counts
RECURSIVE TopicCounts(_)
TopicCounts(papers) ==
    IF papers = <<>> THEN <<>>
    ELSE IncrementAll(TopicCounts(SubSeq(papers, 1, Len(papers) - 1)),
                      TagsOf(GetOr(papers[Len(papers)].topics, <<>>)))

\* lines 187-192: year_counts, keyed by the year
RECURSIVE YearCounts(_)
YearCounts(papers) ==
    IF papers = <<>> THEN <<>>
    ELSE LET before == YearCounts(SubSeq(papers, 1, Len(papers) - 1))
             year == papers[Len(papers)].year
         IN  IF year # 0 THEN Increment(before, year) ELSE before

\* str(year): the decimal digits
RECURSIVE Str(_)
Str(n) == IF n < 10 THEN <<n>> ELSE Str(n \div 10) \o <<n % 10>>

\* a < b on strings of digits
RECURSIVE StrLess(_, _)
StrLess(a, b) ==
    IF b = <<>> THEN FALSE
    ELSE IF a = <<>> THEN TRUE
    ELSE IF a[1] # b[1] THEN a[1] < b[1]
    ELSE StrLess(Tail(a), Tail(b))

CountLess_le(x, y) == x.count <= y.count

\* key=lambda x: x[1]
CountLess(x, y) == x.count < y.count

YearLess_count(x, y) == x.count < y.count

\* key=lambda x: x[0], the key of year_counts being str(year)
YearLess(x, y) == StrLess(Str(x.key), Str(y.key))

\* sorted(species_counts.items(), key=lambda x: x[1], reverse=True): a
\* stable sort, in which an item moves ahead of another only if the
\* other's count is less than its own
RECURSIVE SortedByCount(_)
SortedByCount(items) ==
    IF items = <<>>
    THEN <<>>
    ELSE LET sorted == SortedByCount(SubSeq(items, 1, Len(items) - 1))
             item == items[Len(items)]
             k == Cardinality({i \in 1..Len(sorted) :
                                  ~CountLess(sorted[i], item)})
         IN  SubSeq(sorted, 1, k) \o <<item>>
                 \o SubSeq(sorted, k + 1, Len(sorted))

\* sorted(year_counts.items(), key=lambda x: x[0], reverse=True)
RECURSIVE SortedByYear(_)
SortedByYear(items) ==
    IF items = <<>>
    THEN <<>>
    ELSE LET sorted == SortedByYear(SubSeq(items, 1, Len(items) - 1))
             item == items[Len(items)]
             k == Cardinality({i \in 1..Len(sorted) :
                                  ~YearLess(sorted[i], item)})
         IN  SubSeq(sorted, 1, k) \o <<item>>
                 \o SubSeq(sorted, k + 1, Len(sorted))

\* dataset_stats before compute_dataset_stats fills it: {}
NoStats ==
    [computed |-> FALSE, total_papers |-> 0, by_species |-> <<>>,
     by_topic |-> <<>>, by_year |-> <<>>]

\* compute_dataset_stats; dict(sorted_...) keeps the order of the list
compute_dataset_stats(papers_data) ==
    IF papers_data = <<>>
    THEN NoStats
    ELSE [computed |-> TRUE,
          total_papers |-> Len(papers_data),
          by_species |-> SortedByCount(SpeciesCounts(papers_data)),
          by_topic |-> SortedByCount(TopicCounts(papers_data)),
          by_year |-> SortedByYear(YearCounts(papers_data))]

\* a paper of the corpus with the tags of a typical row
PaperOf(id) ==
    [id |-> id, animal |-> <<"Macaque">>, topics |-> <<"pose">>, year |-> 2020]

\* a corpus file: whether it exists, and the list it holds
NoFile == [exists |-> FALSE, data |-> <<>>]

FileOf(data) == [exists |-> TRUE, data |-> data]

\* load_data: the globals it leaves, from the four corpus files; an absent
\* file leaves its globals as they were initialised.  project_id is read
\* from the environment.
load_data(files, project_id) ==
    [embeddings_data |-> files.embeddings.data,
     papers_lookup |->
         {files.papers.data[i].id : i \in 1..Len(files.papers.data)},
     chunk_embeddings |-> files.chunk_embeddings.data,
     chunk_lookup |->
         {files.chunks.data[i].chunk_id : i \in 1..Len(files.chunks.data)},
     use_chunks |-> files.chunk_embeddings.exists,
     dataset_stats |-> compute_dataset_stats(files.papers.data),
     project_id |-> project_id]

(***************************************************************************)
(* Request handling                                                        *)
(***************************************************************************)
\* requests the served endpoints receive
ServedRequests ==
    { [origin |-> <<"https://", "kordinglab.com", "/page">>, referer |-> <<>>,
       forwarded |-> <<"203.0.113.7">>, client |-> "127.0.0.1"],
      [origin |-> <<>>, referer |-> <<>>,
       forwarded |-> <<>>, client |-> "127.0.0.1"],
      [origin |-> <<>>,
       referer |-> <<"https://", "kordinglab.github.io",
                     "/awesome-computational-primatology/">>,
       forwarded |-> <<>>, client |-> NoClient],
      [origin |-> <<"https://", "evil.example">>, referer |-> <<>>,
       forwarded |-> <<>>, client |-> "127.0.0.1"],
      [origin |-> <<>>, referer |-> <<>>,
       forwarded |-> <<" ", "203.0.113.7", " ", ",", "127.0.0.1">>,
       client |-> "127.0.0.1"] }

IPs == {get_client_ip(request) : request \in ServedRequests}

NoAnswer == [kind |-> "none", text |-> <<>>]

\* generation tells what became of the call of the generation collaborator:
\* "none" (not reached), "not_configured", "raised" or "answered"
NoResponse ==
    [endpoint |-> "none", ip |-> "", status |-> 0, detail |-> "", reason |-> "",
     remaining |-> 0, remaining_requests |-> 0, answer |-> NoAnswer,
     sources |-> <<>>, context |-> <<>>, generation |-> "none",
     trace |-> <<>>]

NoStream == [phase |-> "none", ip |-> "", events |-> <<>>]

\* lines 596-622 of chat, 691-711 of chat_stream: origin check, quota
\* check, then the two appends.  The clock read by check_rate_limit and the
\* one read by the handler before it appends fall in the same tick.
Gate(request, now, counts, globalTimes) ==
    IF ~validate_origin(request)
    THEN [admitted |-> FALSE, status |-> 403, reason |-> "unauthorized_origin",
          remaining |-> 0, request_counts |-> counts,
          global_request_times |-> globalTimes,
          trace |-> <<"validate_origin">>]
    ELSE LET client_ip == get_client_ip(request)
             chk == check_rate_limit(client_ip, now, counts, globalTimes)
         IN  IF ~chk.allowed
             THEN [admitted |-> FALSE,
                   status |-> IF chk.reason = "global_limit" THEN 503 ELSE 429,
                   reason |-> chk.reason, remaining |-> chk.remaining,
                   request_counts |-> chk.request_counts,
                   global_request_times |-> chk.global_request_times,
                   trace |-> <<"validate_origin", "check_rate_limit">>]
             ELSE [admitted |-> TRUE, status |-> 200, reason |-> chk.reason,
                   remaining |-> chk.remaining,
                   request_counts |->
                       RecordForIp(chk.request_counts, client_ip, now),
                   global_request_times |->
                       RecordGlobal(chk.global_request_times, now),
                   trace |-> <<"validate_origin", "check_rate_limit", "record">>]

\* the detail of the HTTPException that ends the handler: what the client
\* reads, next to the status code
Detail(endpoint, status) ==
    CASE status = 403 /\ endpoint = "chat" ->
             "Unauthorized origin. This API is only accessible from the official website."
      [] status = 403 -> "Unauthorized origin."
      [] status = 503 /\ endpoint = "chat" ->
             "Daily limit reached. The service will reset at midnight UTC. Please try again tomorrow."
      [] status = 503 -> "Daily limit reached."
      [] status = 429 /\ endpoint = "chat" ->
             "Rate limit exceeded. Please try again later."
      [] status = 429 -> "Rate limit exceeded."
      [] status = 500 -> "Failed to generate query embedding"
      [] OTHER -> ""

\* A context is a sequence of pieces of text: the line of a paper, the
\* section of a chunk, the rule between two papers, white space, the
\* statistics block, the heading of the sample papers.
Piece(kind, paper, n) == [kind |-> kind, paper |-> paper, n |-> n]

Space == Piece("space", PaperId(0), 0)

\* '\n\n---\n\n'.join(context_parts)
RECURSIVE JoinParts(_)
JoinParts(parts) ==
    IF parts = <<>> THEN <<>>
    ELSE IF Len(parts) = 1 THEN parts[1]
    ELSE parts[1] \o <<Piece("rule", PaperId(0), 0)>> \o JoinParts(Tail(parts))

\* format_context
format_context(papers) ==
    JoinParts([i \in 1..Len(papers) |-> <<Piece("paper", papers[i].id, i)>>])

\* the identifiers in order of first appearance
RECURSIVE FirstSeen(_)
FirstSeen(ids) ==
    IF ids = <<>> THEN <<>>
    ELSE LET before == FirstSeen(SubSeq(ids, 1, Len(ids) - 1))
         IN  IF ids[Len(ids)] \in Range(before)
             THEN before
             ELSE Append(before, ids[Len(ids)])

\* the papers that own the chunks, each once: seen_papers, by_paper
OwningPapers(chunks) ==
    FirstSeen([i \in 1..Len(chunks) |-> chunks[i].paper_id])

\* format_chunk_context
format_chunk_context(chunks) ==
    LET papers == OwningPapers(chunks)
        sections(paper_id) ==
            SelectSeq(chunks, LAMBDA c : c.paper_id = paper_id)
        part(paper_id) ==
            <<Piece("paper", paper_id, 0)>>
                \o [i \in 1..Len(sections(paper_id)) |->
                       Piece("section", paper_id,
                             sections(paper_id)[i].chunk_id[3])]
    IN  JoinParts([k \in 1..Len(papers) |-> part(papers[k])])

YearsListed_oldest(by_year) ==
    SubSeq(by_year, Len(by_year) - Min(YearsShown, Len(by_year)) + 1,
           Len(by_year))

\* list(dataset_stats['by_year'].items())[:10]; YearsShown stands for the 10
YearsListed(by_year) == SubSeq(by_year, 1, Min(YearsShown, Len(by_year)))

\* format_stats_context: empty unless compute_dataset_stats found papers;
\* one piece for the lines of the totals, one for each line of a table
format_stats_context(cfg) ==
    LET stats == cfg.dataset_stats
        years == YearsListed(stats.by_year)
    IN  IF ~stats.computed
        THEN <<>>
        ELSE <<Piece("stats", PaperId(0), stats.total_papers)>>
                 \o [i \in 1..Len(stats.by_species) |->
                        Piece("species", <<stats.by_species[i].key, 0>>,
                              stats.by_species[i].count)]
                 \o [i \in 1..Len(stats.by_topic) |->
                        Piece("topic", <<stats.by_topic[i].key, 0>>,
                              stats.by_topic[i].count)]
                 \o [i \in 1..Len(years) |->
                        Piece("year", <<"year", years[i].key>>,
                              years[i].count)]

\* not context.strip()
Blank(context) == \A i \in 1..Len(context) : context[i].kind = "space"

generate_response_unguarded(context, project_id, genOk) ==
    IF project_id
    THEN [kind |-> IF genOk THEN "model" ELSE "raised", text |-> <<>>]
    ELSE IF ~Blank(context)
    THEN [kind |-> "local_preview",
          text |-> SubSeq(context, 1, Min(ExcerptLen, Len(context)))]
    ELSE [kind |-> "no_papers", text |-> <<>>]

\* generate_response.  genOk: whether the generation collaborator answers
\* (it raises otherwise).  ExcerptLen stands for the 2000 characters.
generate_response(context, project_id, genOk) ==
    IF project_id /\ genOk
    THEN [kind |-> "model", text |-> <<>>]
    ELSE IF ~Blank(context)
    THEN [kind |-> "local_preview",
          text |-> SubSeq(context, 1, Min(ExcerptLen, Len(context)))]
    ELSE [kind |-> "no_papers", text |-> <<>>]

\* lines 624-657 of chat, 713-738 of chat_stream: the search the question
\* is routed to, the papers found and the context built from them
Retrieve(question, cache, cfg, encodeOk) ==
    LET meta_question == is_meta_question(question)
        byChunks == cfg.use_chunks /\ ~meta_question
        found == IF byChunks
                 THEN search_chunks(question, TOP_K_CHUNKS, MAX_PER_PAPER,
                                    cfg, cache, encodeOk)
                 ELSE search_papers(question, TOP_K_PAPERS, cfg, cache,
                                    encodeOk)
        relevant_papers ==
            IF byChunks
            THEN OwningPapers(found.results)
            ELSE [i \in 1..Len(found.results) |-> found.results[i].id]
        context == IF byChunks THEN format_chunk_context(found.results)
                               ELSE format_context(found.results)
    IN  [ok |-> found.ok, cache |-> found.cache, trace |-> found.trace,
         relevant_papers |-> relevant_papers,
         context |-> IF meta_question
                     THEN format_stats_context(cfg)
                              \o <<Space, Piece("heading", PaperId(0), 0), Space>>
                              \o context
                     ELSE context]

\* raise HTTPException ends a handler: the search runs, and touches the
\* embedding cache, only for a request the gate has admitted and recorded
AfterGate_eager(g, r, cache) ==
    [cache |-> r.cache, trace |-> r.trace \o g.trace]

AfterGate(g, r, cache) ==
    IF g.admitted
    THEN [cache |-> r.cache, trace |-> g.trace \o r.trace]
    ELSE [cache |-> cache, trace |-> g.trace]

\* the entries of seq that are less than window ticks old at time now
Within(seq, now, window) == SelectSeq(seq, LAMBDA t : now - t < window)

\* history of admissions, kept for the last DaySecs ticks
Remember(hist, ip, now) ==
    [i \in DOMAIN hist |->
        Within(IF i = ip THEN Append(hist[i], now) ELSE hist[i], now, DaySecs)]

Forget(hist, now) == [i \in DOMAIN hist |-> Within(hist[i], now, DaySecs)]

\* POST /chat
Chat(request, question, encodeOk, genOk) ==
    /\ response = NoResponse
    /\ \E g \in {Gate(request, clock, request_counts, global_request_times)},
          r \in {Retrieve(question, embedding_cache, config, encodeOk)},
          ip \in {get_client_ip(request)},
          generation \in {IF config.project_id THEN <<"generate_content">>
                                               ELSE <<>>} :
       \E a \in {AfterGate(g, r, embedding_cache)} :
           /\ request_counts' = g.request_counts
           /\ global_request_times' = g.global_request_times
           /\ admitted' = IF g.admitted THEN Remember(admitted, ip, clock)
                                        ELSE admitted
           /\ embedding_cache' = a.cache
           /\ response' =
                 [endpoint |-> "chat", ip |-> ip,
                  status |-> IF g.admitted /\ ~r.ok THEN 500 ELSE g.status,
                  detail |-> Detail("chat", IF g.admitted /\ ~r.ok THEN 500
                                                                   ELSE g.status),
                  reason |-> IF g.admitted /\ ~r.ok THEN "retrieval_failed"
                                                   ELSE g.reason,
                  remaining |-> g.remaining,
                  remaining_requests |->
                      IF g.admitted /\ r.ok THEN g.remaining - 1 ELSE 0,
                  answer |-> IF g.admitted /\ r.ok
                             THEN generate_response(r.context,
                                                    config.project_id, genOk)
                             ELSE NoAnswer,
                  sources |-> IF g.admitted /\ r.ok THEN r.relevant_papers
                                                    ELSE <<>>,
                  context |-> IF g.admitted /\ r.ok THEN r.context ELSE <<>>,
                  generation |-> IF ~(g.admitted /\ r.ok) THEN "none"
                                 ELSE IF ~config.project_id
                                 THEN "not_configured"
                                 ELSE IF genOk THEN "answered" ELSE "raised",
                  trace |-> IF g.admitted /\ r.ok THEN a.trace \o generation
                                                  ELSE a.trace]
    /\ UNCHANGED <<clock, config, streams, probe>>

\* POST /chat/stream: the handler up to the return of the StreamingResponse
ChatStream(request, question, encodeOk, slot) ==
    /\ response = NoResponse
    /\ streams[slot].phase \in {"none", "closed", "cancelled"}
    /\ \E g \in {Gate(request, clock, request_counts, global_request_times)},
          r \in {Retrieve(question, embedding_cache, config, encodeOk)},
          ip \in {get_client_ip(request)} :
       \E a \in {AfterGate(g, r, embedding_cache)} :
           /\ request_counts' = g.request_counts
           /\ global_request_times' = g.global_request_times
           /\ admitted' = IF g.admitted THEN Remember(admitted, ip, clock)
                                        ELSE admitted
           /\ embedding_cache' = a.cache
           /\ streams' = IF g.admitted /\ r.ok
                         THEN [streams EXCEPT ![slot] =
                                  [phase |-> "start", ip |-> ip, events |-> <<>>]]
                         ELSE streams
           /\ response' =
                 [endpoint |-> "chat_stream", ip |-> ip,
                  status |-> IF g.admitted /\ ~r.ok THEN 500 ELSE g.status,
                  detail |-> Detail("chat_stream",
                                    IF g.admitted /\ ~r.ok THEN 500 ELSE g.status),
                  reason |-> IF g.admitted /\ ~r.ok THEN "retrieval_failed"
                                                   ELSE g.reason,
                  remaining |-> g.remaining,
                  remaining_requests |-> 0,
                  answer |-> NoAnswer,
                  sources |-> <<>>,
                  context |-> IF g.admitted /\ r.ok THEN r.context ELSE <<>>,
                  generation |-> "none",
                  trace |-> a.trace]
    /\ UNCHANGED <<clock, config, probe>>

Deliver_refund ==
    /\ response # NoResponse
    /\ response' = NoResponse
    /\ request_counts' =
          IF response.status = 500
          THEN [request_counts EXCEPT
                   ![response.ip] = SubSeq(@, 1, Len(@) - 1)]
          ELSE request_counts
    /\ global_request_times' =
          IF response.status = 500
          THEN SubSeq(global_request_times, 1, Len(global_request_times) - 1)
          ELSE global_request_times
    /\ UNCHANGED <<clock, embedding_cache, config, streams, admitted, probe>>

\* the response leaves the server
Deliver ==
    /\ response # NoResponse
    /\ response' = NoResponse
    /\ UNCHANGED <<clock, request_counts, global_request_times, embedding_cache,
                   config, streams, admitted, probe>>

\* time passes, up to the horizon
Advance(horizon) ==
    /\ response = NoResponse
    /\ clock < horizon
    /\ clock' = clock + 1
    /\ admitted' = Forget(admitted, clock + 1)
    /\ UNCHANGED <<request_counts, global_request_times, embedding_cache,
                   config, streams, response, probe>>

Tick == Advance(MaxTime)

(***************************************************************************)
(* Event streams of /chat/stream                                           *)
(***************************************************************************)
FALLBACK_TEXT ==
    <<"This", "is", "a", "local", "preview.", "In", "production,", "this",
      "would", "stream", "from", "Gemini.">>

CountOf(events, kind) == Len(SelectSeq(events, LAMBDA e : e = kind))

Emit(slot, kind, phase) ==
    /\ streams' = [streams EXCEPT ![slot].events = Append(@, kind),
                                  ![slot].phase = phase]
    /\ UNCHANGED <<clock, request_counts, global_request_times, embedding_cache,
                   config, response, admitted, probe>>

\* event_stream: the sources event
StreamSources(slot) ==
    /\ streams[slot].phase = "start"
    /\ Emit(slot, "sources", "generate")

\* generate_response_stream with the collaborator: one fragment
StreamText(slot) ==
    /\ streams[slot].phase = "generate"
    /\ config.project_id
    /\ CountOf(streams[slot].events, "text") < MaxFragments
    /\ Emit(slot, "text", "generate")

\* generate_response_stream with the collaborator: end of the fragments
StreamDone(slot) ==
    /\ streams[slot].phase = "generate"
    /\ config.project_id
    /\ Emit(slot, "done", "closed")

StreamError_goes_on(slot) ==
    /\ streams[slot].phase = "generate"
    /\ config.project_id
    /\ "error" \notin Range(streams[slot].events)
    /\ Emit(slot, "error", "generate")

\* generate_response_stream: the collaborator raises
StreamError(slot) ==
    /\ streams[slot].phase = "generate"
    /\ config.project_id
    /\ Emit(slot, "error", "closed")

\* generate_response_stream without the collaborator: one word of the text
StreamFallbackWord(slot) ==
    /\ streams[slot].phase = "generate"
    /\ ~config.project_id
    /\ CountOf(streams[slot].events, "text") < Len(FALLBACK_TEXT)
    /\ Emit(slot, "text", "generate")

\* generate_response_stream without the collaborator: after the last word
StreamFallbackDone(slot) ==
    /\ streams[slot].phase = "generate"
    /\ ~config.project_id
    /\ CountOf(streams[slot].events, "text") = Len(FALLBACK_TEXT)
    /\ Emit(slot, "done", "closed")

\* the client goes away: no more events are pulled
StreamCancel(slot) ==
    /\ streams[slot].phase \in {"start", "generate"}
    /\ streams' = [streams EXCEPT ![slot].phase = "cancelled"]
    /\ UNCHANGED <<clock, request_counts, global_request_times, embedding_cache,
                   config, response, admitted, probe>>

(***************************************************************************)
(* Specifications                                                          *)
(***************************************************************************)
Slots == 1..MaxStreams

\* what load_data leaves when it finds no corpus file, with no generation
\* collaborator configured
EmptyConfig ==
    [embeddings_data |-> <<>>, papers_lookup |-> {},
     chunk_embeddings |-> <<>>, chunk_lookup |-> {},
     use_chunks |-> FALSE, dataset_stats |-> NoStats, project_id |-> FALSE]

NoProbe == [fn |-> "none"]

InitServer ==
    /\ clock = 0
    /\ request_counts = [ip \in IPs |-> <<>>]
    /\ global_request_times = <<>>
    /\ embedding_cache = <<>>
    /\ streams = [slot \in Slots |-> NoStream]
    /\ response = NoResponse
    /\ admitted = [ip \in IPs |-> <<>>]

\* Spec: the gate.  load_data found no corpus file and no generation
\* collaborator is configured, so no request reaches the embedding cache;
\* the clients of /chat/stream go away before the first event.
Init ==
    /\ InitServer
    /\ probe = NoProbe
    /\ config = EmptyConfig

Next ==
    \/ Tick
    \/ Deliver
    \/ \E request \in ServedRequests, question \in Questions :
            Chat(request, question, TRUE, TRUE)
    \/ \E request \in ServedRequests, question \in Questions :
            ChatStream(request, question, TRUE, 1)
    \/ StreamCancel(1)

Spec == Init /\ [][Next]_vars

\* SpecServe: the whole request pipeline.  load_data found every corpus
\* file and the generation collaborator is configured; both collaborators
\* may raise; streams run to their end or are abandoned by their client.
\* One client is admitted by the origin check, one is not.
ServeRequests ==
    { [origin |-> <<"https://", "kordinglab.com", "/page">>, referer |-> <<>>,
       forwarded |-> <<"203.0.113.7">>, client |-> "127.0.0.1"],
      [origin |-> <<"https://", "evil.example">>, referer |-> <<>>,
       forwarded |-> <<>>, client |-> "127.0.0.1"] }

ServeQuestions == {<<"Pose">>, <<"How many", " ", "macaques">>}

LoadedConfig ==
    [embeddings_data |-> <<[id |-> PaperId(1), embedding |-> <<1, 0>>],
                           [id |-> PaperId(2), embedding |-> <<0, 1>>]>>,
     papers_lookup |-> {PaperId(1), PaperId(2)},
     chunk_embeddings |-> <<[chunk_id |-> ChunkId(PaperId(1), 1),
                             paper_id |-> PaperId(1),
                             embedding |-> <<1, 1>>]>>,
     chunk_lookup |-> {ChunkId(PaperId(1), 1)},
     use_chunks |-> TRUE,
     dataset_stats |->
         compute_dataset_stats(<<PaperOf(PaperId(1)), PaperOf(PaperId(2))>>),
     project_id |-> TRUE]

InitServe ==
    /\ InitServer
    /\ probe = NoProbe
    /\ config = LoadedConfig

NextServe ==
    \/ Tick
    \/ Deliver
    \/ \E request \in ServeRequests, question \in ServeQuestions,
          encodeOk \in BOOLEAN, genOk \in BOOLEAN :
            Chat(request, question, encodeOk, genOk)
    \/ \E request \in ServeRequests, question \in ServeQuestions,
          encodeOk \in BOOLEAN, slot \in Slots :
            ChatStream(request, question, encodeOk, slot)
    \/ \E slot \in Slots : StreamSources(slot)
    \/ \E slot \in Slots : StreamText(slot)
    \/ \E slot \in Slots : StreamDone(slot)
    \/ \E slot \in Slots : StreamError(slot)
    \/ \E slot \in Slots : StreamCancel(slot)

SpecServe == InitServe /\ [][NextServe]_vars

\* SpecAnswer: POST /chat from one client of the site, with every corpus
\* file loaded or none, the generation collaborator configured or not, and
\* both collaborators free to raise
AnswerRequests ==
    { [origin |-> <<"https://", "kordinglab.com", "/page">>, referer |-> <<>>,
       forwarded |-> <<"203.0.113.7">>, client |-> "127.0.0.1"] }

AnswerQuestions == ServeQuestions \cup {<<"gaze">>}

AnswerConfigs ==
    { [cfg EXCEPT !.project_id = configured] :
         cfg \in {LoadedConfig, EmptyConfig}, configured \in BOOLEAN }

InitAnswer ==
    /\ InitServer
    /\ probe = NoProbe
    /\ config \in AnswerConfigs

NextAnswer ==
    \/ Tick
    \/ Deliver
    \/ \E request \in AnswerRequests, question \in AnswerQuestions,
          encodeOk \in BOOLEAN, genOk \in BOOLEAN :
            Chat(request, question, encodeOk, genOk)

SpecAnswer == InitAnswer /\ [][NextAnswer]_vars

\* SpecStream: POST /chat/stream from one client of the site, under the
\* configurations of SpecAnswer.  The server pulls the next event of a
\* stream for as long as its client is connected, and a collaborator that
\* is streaming ends its stream or raises.  The requests arrive within one
\* tick of the clock.
Pull(slot) ==
    \/ StreamSources(slot)
    \/ StreamText(slot)
    \/ StreamDone(slot)
    \/ StreamError(slot)
    \/ StreamFallbackWord(slot)
    \/ StreamFallbackDone(slot)

NextStream ==
    \/ Deliver
    \/ \E request \in AnswerRequests, question \in ServeQuestions,
          encodeOk \in BOOLEAN, slot \in Slots :
            ChatStream(request, question, encodeOk, slot)
    \/ \E slot \in Slots : Pull(slot)
    \/ \E slot \in Slots : StreamCancel(slot)

SpecStream ==
    /\ InitAnswer
    /\ [][NextStream]_vars
    /\ \A slot \in Slots : WF_vars(Pull(slot))

\* SpecOrigin: validate_origin applied to one request
InitOrigin ==
    /\ InitServer
    /\ config = EmptyConfig
    /\ probe \in {[fn |-> "validate_origin", request |-> request,
                    done |-> FALSE, result |-> FALSE] : request \in AllRequests}

ValidateOrigin ==
    /\ probe.fn = "validate_origin"
    /\ ~probe.done
    /\ probe' = [probe EXCEPT !.done = TRUE,
                              !.result = validate_origin(probe.request)]
    /\ UNCHANGED <<clock, request_counts, global_request_times, embedding_cache,
                   config, streams, response, admitted>>

NextOrigin == ValidateOrigin

SpecOrigin == InitOrigin /\ [][NextOrigin]_vars

\* SpecCache: get_query_embedding called over and over; probe keeps the
\* last two calls, each with the number of entries the cache held when the
\* call began, and the keys of the calls that returned a vector, least
\* recently used first
NoCall ==
    [made |-> FALSE, query |-> <<>>, key |-> <<>>, ok |-> FALSE,
     value |-> <<>>, hit |-> FALSE, encoded |-> FALSE, size |-> 0]

\* the key becomes the most recently used one
Touch(uses, key) == SelectSeq(uses, LAMBDA k : k # key) \o <<key>>

InitCache ==
    /\ InitServer
    /\ config = EmptyConfig
    /\ probe = [fn |-> "get_query_embedding", prev |-> NoCall, last |-> NoCall,
                uses |-> <<>>]

GetQueryEmbedding(query, encodeOk) ==
    /\ probe.fn = "get_query_embedding"
    /\ \E emb \in {get_query_embedding(query, embedding_cache, encodeOk)} :
           /\ embedding_cache' = emb.cache
           /\ probe' = [probe EXCEPT
                           !.prev = probe.last,
                           !.last = [made |-> TRUE, query |-> query,
                                     key |-> emb.key, ok |-> emb.ok,
                                     value |-> emb.value, hit |-> emb.hit,
                                     encoded |-> emb.encoded,
                                     size |-> Len(embedding_cache)],
                           !.uses = IF emb.ok THEN Touch(@, emb.key) ELSE @]
    /\ UNCHANGED <<clock, request_counts, global_request_times, config,
                   streams, response, admitted>>

NextCache ==
    \E query \in Questions, encodeOk \in BOOLEAN :
        GetQueryEmbedding(query, encodeOk)

SpecCache == InitCache /\ [][NextCache]_vars

\* SpecSearch: one call of search_papers, of search_chunks or of
\* cosine_similarity.  A corpus is any list of up to MaxCorpus embeddings;
\* at most one of its entries is absent from the lookup built from the
\* other corpus file.
EmbeddingValues == {<<0, 0>>, <<1, 0>>, <<1, 1>>, <<0, 1>>}

ChunkEmbeddingValues == {<<0, 0>>, <<1, 0>>, <<1, 1>>}

ChunkPapers == {PaperId(1), PaperId(2)}

SearchQueries == {<<"Pose">>, <<"gaze">>}

SeqsUpTo(S, n) == UNION {[1..k -> S] : k \in 0..n}

PaperConfigs ==
    { [embeddings_data |->
           [i \in 1..Len(es) |-> [id |-> PaperId(i), embedding |-> es[i]]],
       papers_lookup |-> {PaperId(i) : i \in (1..Len(es)) \ {absent}},
       chunk_embeddings |-> <<>>, chunk_lookup |-> {},
       use_chunks |-> FALSE,
       dataset_stats |->
           compute_dataset_stats(
               SelectSeq([i \in 1..Len(es) |-> PaperOf(PaperId(i))],
                         LAMBDA p : p.id # PaperId(absent))),
       project_id |-> FALSE] :
         es \in SeqsUpTo(EmbeddingValues, MaxCorpus), absent \in 0..MaxCorpus }

ChunkConfigs ==
    { [embeddings_data |-> <<>>, papers_lookup |-> {},
       chunk_embeddings |->
           [i \in 1..Len(cs) |->
               [chunk_id |-> ChunkId(cs[i][1], i), paper_id |-> cs[i][1],
                embedding |-> cs[i][2]]],
       chunk_lookup |->
           {ChunkId(cs[i][1], i) : i \in (1..Len(cs)) \ {absent}},
       use_chunks |-> TRUE, dataset_stats |-> NoStats,
       project_id |-> FALSE] :
         cs \in SeqsUpTo(ChunkPapers \X ChunkEmbeddingValues, MaxCorpus),
         absent \in 0..MaxCorpus }

NoSearch ==
    [fn |-> "none", query |-> <<>>, top_k |-> 0, max_per_paper |-> 0,
     a |-> <<>>, b |-> <<>>, done |-> FALSE, ok |-> FALSE, results |-> <<>>,
     similarity |-> NaN]

InitSearch ==
    /\ InitServer
    /\ \/ /\ config \in PaperConfigs
          /\ probe \in {[NoSearch EXCEPT !.fn = "search_papers", !.query = q,
                                          !.top_k = k] :
                            q \in SearchQueries, k \in 0..MaxTopK}
       \/ /\ config \in ChunkConfigs
          /\ probe \in {[NoSearch EXCEPT !.fn = "search_chunks", !.query = q,
                                          !.top_k = k, !.max_per_paper = m] :
                            q \in SearchQueries, k \in 0..MaxTopK,
                            m \in 0..MaxPerPaper}
       \/ /\ config = EmptyConfig
          /\ probe \in {[NoSearch EXCEPT !.fn = "cosine_similarity",
                                          !.a = a, !.b = b] :
                            a \in EmbeddingValues \cup {Encode(<<"Pose">>)},
                            b \in EmbeddingValues}

SearchPapers(encodeOk) ==
    /\ probe.fn = "search_papers"
    /\ ~probe.done
    /\ \E r \in {search_papers(probe.query, probe.top_k, config,
                                embedding_cache, encodeOk)} :
           /\ embedding_cache' = r.cache
           /\ probe' = [probe EXCEPT !.done = TRUE, !.ok = r.ok,
                                     !.results = r.results]
    /\ UNCHANGED <<clock, request_counts, global_request_times, config,
                   streams, response, admitted>>

SearchChunks(encodeOk) ==
    /\ probe.fn = "search_chunks"
    /\ ~probe.done
    /\ \E r \in {search_chunks(probe.query, probe.top_k, probe.max_per_paper,
                                config, embedding_cache, encodeOk)} :
           /\ embedding_cache' = r.cache
           /\ probe' = [probe EXCEPT !.done = TRUE, !.ok = r.ok,
                                     !.results = r.results]
    /\ UNCHANGED <<clock, request_counts, global_request_times, config,
                   streams, response, admitted>>

CosineSimilarity ==
    /\ probe.fn = "cosine_similarity"
    /\ ~probe.done
    /\ probe' = [probe EXCEPT !.done = TRUE, !.ok = TRUE,
                              !.similarity = cosine_similarity(probe.a, probe.b)]
    /\ UNCHANGED <<clock, request_counts, global_request_times, embedding_cache,
                   config, streams, response, admitted>>

NextSearch ==
    \/ \E encodeOk \in BOOLEAN : SearchPapers(encodeOk)
    \/ \E encodeOk \in BOOLEAN : SearchChunks(encodeOk)
    \/ CosineSimilarity

SpecSearch == InitSearch /\ [][NextSearch]_vars

\* SpecStats: startup with a papers file and no other corpus file, then
\* the rendering of the statistics.  A corpus is any list of up to
\* MaxCorpus papers, each tagged as one of the profiles.
StatsProfiles ==
    { [animal |-> <<"Macaque">>, topics |-> <<"pose">>, year |-> 2020],
      [animal |-> <<"Chimpanzee", ",", " ", "Macaque">>,
       topics |-> <<"pose", ",", "face">>, year |-> 2021],
      [animal |-> <<" ", "Macaque", " ", ",", ",", " ">>,
       topics |-> <<>>, year |-> 2021],
      [animal |-> <<"Lemur">>, topics |-> <<"face">>, year |-> 2019],
      [animal |-> KeyAbsent, topics |-> <<"gaze">>, year |-> 0],
      [animal |-> <<"Macaque", ",", "Macaque">>, topics |-> <<"face">>,
       year |-> 2022],
      [animal |-> <<"Chimpanzee">>, topics |-> KeyAbsent, year |-> 2018] }

StatsCorpora ==
    { [i \in 1..Len(tags) |->
          [id |-> PaperId(i), animal |-> tags[i].animal,
           topics |-> tags[i].topics, year |-> tags[i].year]] :
        tags \in SeqsUpTo(StatsProfiles, MaxCorpus) }

NoStartup ==
    [fn |-> "load_data",
     files |-> [papers |-> NoFile, embeddings |-> NoFile, chunks |-> NoFile,
                chunk_embeddings |-> NoFile],
     done |-> FALSE, rendered |-> FALSE, rendering |-> <<>>]

InitStats ==
    /\ InitServer
    /\ config = EmptyConfig
    /\ probe \in {[NoStartup EXCEPT !.files.papers = FileOf(corpus)] :
                     corpus \in StatsCorpora}

\* the startup event: load_data, which ends with compute_dataset_stats
LoadData ==
    /\ probe.fn = "load_data"
    /\ ~probe.done
    /\ config' = load_data(probe.files, config.project_id)
    /\ probe' = [probe EXCEPT !.done = TRUE]
    /\ UNCHANGED <<clock, request_counts, global_request_times, embedding_cache,
                   streams, response, admitted>>

FormatStatsContext ==
    /\ probe.fn = "load_data"
    /\ probe.done
    /\ ~probe.rendered
    /\ probe' = [probe EXCEPT !.rendered = TRUE,
                              !.rendering = format_stats_context(config)]
    /\ UNCHANGED <<clock, request_counts, global_request_times, embedding_cache,
                   config, streams, response, admitted>>

NextStats ==
    \/ LoadData
    \/ FormatStatsContext

SpecStats == InitStats /\ [][NextStats]_vars

\* SpecStartup: startup with every combination of present and absent
\* corpus files (the chunk-embeddings file may also hold an empty list),
\* then requests from one client of the site to both endpoints.  The
\* server takes requests once the startup event has run.
StartupPapers ==
    <<[id |-> PaperId(1), animal |-> <<"Macaque">>,
       topics |-> <<"pose", ",", " ", "face">>, year |-> 2021],
      [id |-> PaperId(2), animal |-> <<"Chimpanzee", ",", "Macaque">>,
       topics |-> <<"gaze">>, year |-> 2020]>>

StartupEmbeddings ==
    <<[id |-> PaperId(1), embedding |-> <<1, 0>>],
      [id |-> PaperId(2), embedding |-> <<1, 1>>]>>

StartupChunks ==
    <<[chunk_id |-> ChunkId(PaperId(1), 1), paper_id |-> PaperId(1)],
      [chunk_id |-> ChunkId(PaperId(2), 2), paper_id |-> PaperId(2)]>>

StartupChunkEmbeddings ==
    <<[chunk_id |-> ChunkId(PaperId(1), 1), paper_id |-> PaperId(1),
       embedding |-> <<1, 1>>],
      [chunk_id |-> ChunkId(PaperId(2), 2), paper_id |-> PaperId(2),
       embedding |-> <<0, 1>>]>>

StartupFiles ==
    [papers : {NoFile, FileOf(StartupPapers)},
     embeddings : {NoFile, FileOf(StartupEmbeddings)},
     chunks : {NoFile, FileOf(StartupChunks)},
     chunk_embeddings : {NoFile, FileOf(<<>>), FileOf(StartupChunkEmbeddings)}]

StartupQuestions ==
    {<<"gaze">>, <<"How many", " ", "macaques">>, <<"gaze", " ", "dataset">>}

InitStartup ==
    /\ InitServer
    /\ config = EmptyConfig
    /\ probe \in {[NoStartup EXCEPT !.files = files] : files \in StartupFiles}

Started == probe.fn = "load_data" /\ probe.done

NextStartup ==
    \/ LoadData
    \/ Deliver
    \/ \E request \in AnswerRequests, question \in StartupQuestions,
          encodeOk \in BOOLEAN :
            Started /\ Chat(request, question, encodeOk, TRUE)
    \/ \E request \in AnswerRequests, question \in StartupQuestions,
          encodeOk \in BOOLEAN, slot \in Slots :
            Started /\ ChatStream(request, question, encodeOk, slot)
    \/ \E slot \in Slots : StreamCancel(slot)

SpecStartup == InitStartup /\ [][NextStartup]_vars

\* SpecClient: three clients (two of the site, one of another origin) send
\* requests to one of the two endpoints; a client reads the status code
\* and the detail of each response.  probe keeps what the clients have
\* read in the responses that reject a request, with the cause of each.
ClientRequests ==
    { [origin |-> <<"https://", "kordinglab.com", "/page">>, referer |-> <<>>,
       forwarded |-> <<"203.0.113.7">>, client |-> "127.0.0.1"],
      [origin |-> <<>>, referer |-> <<>>,
       forwarded |-> <<>>, client |-> "127.0.0.1"],
      [origin |-> <<"https://", "evil.example">>, referer |-> <<>>,
       forwarded |-> <<>>, client |-> "127.0.0.1"] }

InitClient ==
    /\ InitServer
    /\ config = [LoadedConfig EXCEPT !.project_id = FALSE]
    /\ probe \in {[fn |-> "client", endpoint |-> endpoint, read |-> {}] :
                     endpoint \in {"chat", "chat_stream"}}

\* the response reaches its client
Receive ==
    /\ probe.fn = "client"
    /\ response # NoResponse
    /\ response' = NoResponse
    /\ probe' = [probe EXCEPT
                    !.read = IF response.status = 200 THEN @
                             ELSE @ \cup {[cause |-> response.reason,
                                           status |-> response.status,
                                           detail |-> response.detail]}]
    /\ UNCHANGED <<clock, request_counts, global_request_times, embedding_cache,
                   config, streams, admitted>>

NextClient ==
    \/ Tick
    \/ Receive
    \/ \E request \in ClientRequests, encodeOk \in BOOLEAN :
            probe.endpoint = "chat" /\ Chat(request, <<"gaze">>, encodeOk, TRUE)
    \/ \E request \in ClientRequests, encodeOk \in BOOLEAN :
            /\ probe.endpoint = "chat_stream"
            /\ ChatStream(request, <<"gaze">>, encodeOk, 1)
    \/ StreamCancel(1)

SpecClient == InitClient /\ [][NextClient]_vars

\* SpecQuota: two clients of the site send requests to /chat over more
\* than a day, with no corpus loaded.  probe keeps the time of the last
\* admission of each IP and whether a quota has denied it since.
InitQuota ==
    /\ InitServer
    /\ config = EmptyConfig
    /\ probe = [fn |-> "quota", last |-> [ip \in IPs |-> -1],
                denied |-> [ip \in IPs |-> FALSE]]

\* the response leaves the server
Settle ==
    /\ probe.fn = "quota"
    /\ response # NoResponse
    /\ response' = NoResponse
    /\ probe' = [probe EXCEPT
                    !.last[response.ip] =
                        IF response.status = 200 THEN clock ELSE @,
                    !.denied[response.ip] = response.status \in {429, 503}]
    /\ UNCHANGED <<clock, request_counts, global_request_times, embedding_cache,
                   config, streams, admitted>>

NextQuota ==
    \/ Advance(MaxLate)
    \/ Settle
    \/ \E request \in ClientRequests : Chat(request, <<"gaze">>, TRUE, TRUE)

SpecQuota == InitQuota /\ [][NextQuota]_vars

(***************************************************************************)
(* Properties of the gate                                                  *)
(***************************************************************************)
RECURSIVE SumLen(_, _)
SumLen(f, S) ==
    IF S = {} THEN 0
    ELSE LET x == CHOOSE y \in S : TRUE IN Len(f[x]) + SumLen(f, S \ {x})

\* admitted requests of ip in the last hour / day, of all IPs in the last day
AdmittedInHour(ip) == Len(Within(admitted[ip], clock, HourSecs))
AdmittedInDay(ip) == Len(Within(admitted[ip], clock, DaySecs))
AdmittedInDayAll ==
    SumLen([ip \in IPs |-> Within(admitted[ip], clock, DaySecs)], IPs)

\* this step is a run of a handler; its outcome is response'
HandlerRan == response = NoResponse /\ response' # NoResponse

\* this step is a run of a handler that got to the quota check
QuotaChecked == HandlerRan /\ response'.status # 403

\* this step is a run of a handler that ended in a quota denial
QuotaDenied == HandlerRan /\ response'.status \in {429, 503}

\* this step is a run of a handler that recorded its request
Admitted == HandlerRan /\ response'.status \in {200, 500}

\* C1: no IP ever has more than RATE_LIMIT admitted requests inside one
\* rolling hour, and a request attempted while its IP has RATE_LIMIT admitted
\* requests in the last hour, the global ceiling not being reached, is
\* denied with reason hourly_limit.
C1_HourlyCeiling ==
    [][ /\ \A ip \in IPs :
            Len(Within(admitted'[ip], clock', HourSecs)) <= RATE_LIMIT
        /\ ( /\ QuotaChecked
             /\ AdmittedInHour(response'.ip) >= RATE_LIMIT
             /\ AdmittedInDayAll < GLOBAL_DAILY_LIMIT )
           => response'.reason = "hourly_limit" ]_vars

C1_Witness ==
    /\ response.reason = "hourly_limit"
    /\ AdmittedInHour(response.ip) = RATE_LIMIT
    /\ AdmittedInDay(response.ip) < DAILY_LIMIT

\* C2: no IP ever has more than DAILY_LIMIT admitted requests inside one
\* rolling day; a request attempted while its IP has DAILY_LIMIT admitted
\* requests in the last day and fewer than RATE_LIMIT in the last hour, the
\* global ceiling not being reached, is denied with reason daily_limit; when
\* both the hourly and the daily ceiling are reached the reason is
\* hourly_limit.
C2_DailyCeiling ==
    [][ /\ \A ip \in IPs :
            Len(Within(admitted'[ip], clock', DaySecs)) <= DAILY_LIMIT
        /\ ( /\ QuotaChecked
             /\ AdmittedInDay(response'.ip) >= DAILY_LIMIT
             /\ AdmittedInDayAll < GLOBAL_DAILY_LIMIT )
           => response'.reason =
                 IF AdmittedInHour(response'.ip) >= RATE_LIMIT
                 THEN "hourly_limit" ELSE "daily_limit" ]_vars

C2_Witness ==
    /\ response.reason = "daily_limit"
    /\ AdmittedInDay(response.ip) = DAILY_LIMIT
    /\ AdmittedInHour(response.ip) < RATE_LIMIT
    /\ AdmittedInDayAll < GLOBAL_DAILY_LIMIT

HasAllowedPrefix(value) ==
    \E i \in 1..Len(ALLOWED_ORIGINS), k \in 0..Len(value) :
        /\ k = Len(ALLOWED_ORIGINS[i])
        /\ \A j \in 1..k : value[j] = ALLOWED_ORIGINS[i][j]

\* C4: validate_origin admits a request exactly when its Origin header is
\* present and starts with an allowed origin, or its Referer header is
\* present and starts with an allowed origin, or both headers are absent
\* and the client IP is a loopback address; so kordinglab.com/page is
\* admitted and evil.example is denied, also from a loopback address.
C4_OriginDecision ==
    (probe.fn = "validate_origin" /\ probe.done) =>
        LET request == probe.request
            ip == get_client_ip(request)
        IN  /\ probe.result <=>
                  \/ request.origin # <<>> /\ HasAllowedPrefix(request.origin)
                  \/ request.referer # <<>> /\ HasAllowedPrefix(request.referer)
                  \/ /\ request.origin = <<>>
                     /\ request.referer = <<>>
                     /\ ip \in {"127.0.0.1", "::1", "localhost"}
            /\ request.origin = <<"https://", "kordinglab.com", "/page">>
                  => probe.result
            /\ ( /\ request.origin = <<"https://", "evil.example">>
                 /\ ~HasAllowedPrefix(request.referer) )
                  => ~probe.result

C4_Witness ==
    /\ probe.fn = "validate_origin"
    /\ probe.done
    /\ probe.request.origin = <<"https://", "evil.example">>
    /\ probe.request.referer = <<>>
    /\ get_client_ip(probe.request) = "127.0.0.1"
    /\ ~probe.result

\* C5: a handler that admits its request leaves each of the two sequences
\* with exactly one more timestamp, the current time, after the entries of
\* the last day; a handler that denies it (origin or quota) adds no
\* timestamp to any sequence.
C5_ExactlyOnce ==
    [][ /\ Admitted =>
            /\ Within(request_counts'[response'.ip], clock, DaySecs)
                 = Append(Within(request_counts[response'.ip], clock, DaySecs),
                          clock)
            /\ Len(request_counts'[response'.ip])
                 <= Len(request_counts[response'.ip]) + 1
            /\ Within(global_request_times', clock, DaySecs)
                 = Append(Within(global_request_times, clock, DaySecs), clock)
            /\ Len(global_request_times') <= Len(global_request_times) + 1
            /\ \A ip \in IPs \ {response'.ip} :
                    request_counts'[ip] = request_counts[ip]
        /\ (HandlerRan /\ ~Admitted) =>
            /\ \A ip \in IPs :
                 /\ Within(request_counts'[ip], clock, DaySecs)
                      = Within(request_counts[ip], clock, DaySecs)
                 /\ Len(request_counts'[ip]) <= Len(request_counts[ip])
            /\ Within(global_request_times', clock, DaySecs)
                 = Within(global_request_times, clock, DaySecs)
            /\ Len(global_request_times') <= Len(global_request_times) ]_vars

C5_Witness ==
    /\ response.endpoint = "chat_stream"
    /\ response.status = 200
    /\ Len(request_counts[response.ip]) = 2
    /\ \E ip \in IPs \ {response.ip} : Len(request_counts[ip]) = 1
    /\ Len(global_request_times) = 3

\* C6 as claimed: a quota check that ends in a denial leaves the global
\* sequence and every per-IP sequence as they were.
C6_CheckLeavesState ==
    [][ QuotaDenied =>
            /\ request_counts' = request_counts
            /\ global_request_times' = global_request_times ]_vars

\* C6 as amended: a quota check that ends in a denial adds no timestamp; it
\* removes the timestamps that are a day old or older from the global
\* sequence and, unless the reason is global_limit, from the sequence of
\* the checked IP, and leaves the other IPs' sequences as they were.
C6_CheckOnlyPrunes ==
    [][ QuotaDenied =>
            /\ global_request_times' = Within(global_request_times, clock, DaySecs)
            /\ request_counts'[response'.ip] =
                 IF response'.reason = "global_limit"
                 THEN request_counts[response'.ip]
                 ELSE Within(request_counts[response'.ip], clock, DaySecs)
            /\ \A ip \in IPs \ {response'.ip} :
                    request_counts'[ip] = request_counts[ip] ]_vars

C6_Witness ==
    /\ response.reason = "hourly_limit"
    /\ clock = DaySecs
    /\ \E ip \in IPs \ {response.ip} : 0 \in Range(request_counts[ip])
    /\ 0 \notin Range(request_counts[response.ip])
    /\ 0 \notin Range(global_request_times)

\* C9: an allowed check reports the smaller of the hourly and the daily
\* allowance left before the request is counted, a denial reports 0, and
\* remaining_requests of an admitted /chat response is that minimum with the
\* request counted, which is never negative.
C9_RemainingQuota ==
    /\ response.status \in {200, 500} =>
          response.remaining =
              Min(RATE_LIMIT - (AdmittedInHour(response.ip) - 1),
                  DAILY_LIMIT - (AdmittedInDay(response.ip) - 1))
    /\ response.status \in {429, 503} => response.remaining = 0
    /\ (response.endpoint = "chat" /\ response.status = 200) =>
          /\ response.remaining_requests =
                Min(RATE_LIMIT - AdmittedInHour(response.ip),
                    DAILY_LIMIT - AdmittedInDay(response.ip))
          /\ response.remaining_requests = response.remaining - 1
          /\ response.remaining_requests >= 0

C9_Witness ==
    /\ response.endpoint = "chat"
    /\ response.status = 200
    /\ response.remaining_requests = 0
    /\ AdmittedInHour(response.ip) < RATE_LIMIT
    /\ AdmittedInDay(response.ip) = DAILY_LIMIT

(***************************************************************************)
(* Properties of the request pipeline                                      *)
(***************************************************************************)
\* the calls of a handler that the gate protects
Expensive ==
    {"search_papers", "search_chunks", "get_query_embedding", "encode",
     "generate_content"}

\* C7: in a run of either handler every search, embedding or generation
\* call comes after the origin check, the quota check and the recording of
\* the request, in this order; a denied request makes none of these calls,
\* leaves the embedding cache as it was and starts no event stream; the
\* cache changes only in a handler that has called get_query_embedding, and
\* a stream is started only by an admitted, recorded request.
C7_GateFirst ==
    [][ /\ HandlerRan =>
            /\ response'.trace # <<>>
            /\ response'.trace[1] = "validate_origin"
            /\ \A i \in 1..Len(response'.trace) :
                  response'.trace[i] \in Expensive =>
                      /\ i > 3
                      /\ SubSeq(response'.trace, 1, 3) =
                            <<"validate_origin", "check_rate_limit", "record">>
            /\ response'.status \in {403, 429, 503} =>
                  /\ Range(response'.trace) \cap Expensive = {}
                  /\ embedding_cache' = embedding_cache
                  /\ streams' = streams
        /\ embedding_cache' # embedding_cache =>
            /\ HandlerRan
            /\ "get_query_embedding" \in Range(response'.trace)
        /\ \A slot \in Slots :
              (streams'[slot] # streams[slot] /\ streams'[slot].phase = "start") =>
                  /\ HandlerRan
                  /\ response'.status = 200
                  /\ clock \in Range(request_counts'[streams'[slot].ip])
                  /\ clock \in Range(global_request_times')
        /\ \A slot \in Slots :
              Len(streams'[slot].events) > Len(streams[slot].events) =>
                  streams[slot].phase \in {"start", "generate"} ]_vars

C7_Witness ==
    /\ response.status = 429
    /\ response.trace = <<"validate_origin", "check_rate_limit">>
    /\ embedding_cache # <<>>
    /\ \E slot \in Slots : streams[slot].phase = "generate"

SameNormalized(q1, q2) == Strip(Lower(q1)) = Strip(Lower(q2))

\* the entry for the normalized query q, if the cache holds one
EntriesFor(cache, q) ==
    {e \in Range(cache) : \E p \in Questions :
        SameNormalized(p, q) /\ e.key = CacheKey(p)}

\* C10: of two consecutive calls with queries that are equal after
\* normalization, the first of which returned a vector, the second returns
\* the identical vector and the collaborator is invoked at most once for the
\* two; more generally a call that finds an entry for its normalized query
\* returns the stored vector without invoking the collaborator, and an
\* entry keeps its vector for as long as it stays in the cache.
C10_CacheIdempotence ==
    [][ (probe.fn = "get_query_embedding" /\ probe'.last.made) =>
          /\ ( /\ probe'.prev.made
               /\ probe'.prev.ok
               /\ SameNormalized(probe'.prev.query, probe'.last.query) )
             => /\ probe'.last.ok
                /\ probe'.last.value = probe'.prev.value
                /\ ~probe'.last.encoded
          /\ \A e \in EntriesFor(embedding_cache, probe'.last.query) :
                /\ probe'.last.ok
                /\ probe'.last.hit
                /\ probe'.last.value = e.value
                /\ ~probe'.last.encoded
          /\ probe'.last.hit => ~probe'.last.encoded
          /\ \A e \in Range(embedding_cache) :
                \A f \in Range(embedding_cache') :
                    f.key = e.key => f.value = e.value ]_vars

C10_Witness ==
    /\ probe.fn = "get_query_embedding"
    /\ probe.prev.query = <<"Pose">>
    /\ probe.prev.encoded
    /\ probe.last.query = <<" ", "pose", " ">>
    /\ probe.last.hit
    /\ probe.last.value = Encode(<<"Pose">>)
    /\ probe.last.value # Encode(probe.last.query)

\* the key in the cache whose most recent use is the oldest
LeastRecentlyUsed(uses, cache) ==
    uses[CHOOSE i \in 1..Len(uses) :
            /\ uses[i] \in CacheKeys(cache)
            /\ \A j \in 1..(i - 1) : uses[j] \notin CacheKeys(cache)]

\* a call that missed, got a vector from the collaborator and inserted it
MissInserted ==
    /\ probe.fn = "get_query_embedding"
    /\ probe' # probe
    /\ probe'.last.ok
    /\ probe'.last.encoded

\* C11: every key in the cache has been used; a miss inserted into a full
\* cache removes exactly the entry whose most recent use (insertion or hit)
\* is the oldest and keeps the new key; the most recently used entry, in
\* particular one that the previous call hit, survives the eviction.
C11_LruEviction ==
    [][ /\ probe.fn = "get_query_embedding" =>
              CacheKeys(embedding_cache) \subseteq Range(probe.uses)
        /\ (MissInserted /\ Len(embedding_cache) = EMBEDDING_CACHE_SIZE) =>
              /\ CacheKeys(embedding_cache') =
                    (CacheKeys(embedding_cache)
                        \ {LeastRecentlyUsed(probe.uses, embedding_cache)})
                    \cup {probe'.last.key}
              /\ probe'.last.key \in CacheKeys(embedding_cache')
              /\ probe'.last.key
                    # LeastRecentlyUsed(probe.uses, embedding_cache)
              /\ probe.uses[Len(probe.uses)] \in CacheKeys(embedding_cache')
              /\ probe.last.hit =>
                    probe.last.key \in CacheKeys(embedding_cache') ]_vars

\* a hit on the oldest entry of a full cache, then a miss: the entry that
\* was hit is still there and a younger one is gone
C11_Witness ==
    /\ probe.fn = "get_query_embedding"
    /\ probe.prev.hit
    /\ probe.prev.size = EMBEDDING_CACHE_SIZE
    /\ probe.last.ok /\ probe.last.encoded
    /\ probe.last.size = EMBEDDING_CACHE_SIZE
    /\ embedding_cache[1].key = probe.prev.key
    /\ embedding_cache[Len(embedding_cache)].key = probe.last.key
    /\ \E k \in Range(probe.uses) : k \notin CacheKeys(embedding_cache)

\* the keys that a step removes from the cache
RemovedKeys == CacheKeys(embedding_cache) \ CacheKeys(embedding_cache')

\* C12: after every call the cache holds at most EMBEDDING_CACHE_SIZE
\* entries, one per key; a miss that is inserted removes exactly one entry
\* when the cache was full and none otherwise, and no other call removes any.
C12_CacheCapacity ==
    [][ /\ Len(embedding_cache') <= EMBEDDING_CACHE_SIZE
        /\ Cardinality(CacheKeys(embedding_cache')) = Len(embedding_cache')
        /\ IF MissInserted /\ Len(embedding_cache) = EMBEDDING_CACHE_SIZE
           THEN /\ Cardinality(RemovedKeys) = 1
                /\ Len(embedding_cache') = EMBEDDING_CACHE_SIZE
           ELSE /\ RemovedKeys = {}
                /\ MissInserted =>
                      Len(embedding_cache') = Len(embedding_cache) + 1 ]_vars

\* a miss has just been inserted into a full cache, which is full again
C12_Witness ==
    /\ probe.fn = "get_query_embedding"
    /\ probe.last.ok /\ probe.last.encoded
    /\ probe.last.size = EMBEDDING_CACHE_SIZE
    /\ Len(embedding_cache) = EMBEDDING_CACHE_SIZE
    /\ Len(probe.uses) = EMBEDDING_CACHE_SIZE + 1

\* C13: a call in which the collaborator raises was a miss, ends without a
\* vector (HTTP 500) and leaves the cache, contents and order, exactly as it
\* was, so its key is not in the cache; the next call with the same
\* normalized query invokes the collaborator again.
C13_FailureNotCached ==
    [][ (probe.fn = "get_query_embedding" /\ probe'.last.made) =>
          /\ ~probe'.last.ok =>
                /\ embedding_cache' = embedding_cache
                /\ probe'.uses = probe.uses
                /\ ~probe'.last.hit
                /\ probe'.last.encoded
                /\ probe'.last.value = <<>>
                /\ probe'.last.key \notin CacheKeys(embedding_cache')
          /\ ( /\ probe'.prev.made
               /\ ~probe'.prev.ok
               /\ SameNormalized(probe'.prev.query, probe'.last.query) )
             => probe'.last.encoded ]_vars

\* the collaborator raised on a miss against a non-empty cache, and the next
\* call with the same query reached the collaborator and got its vector
C13_Witness ==
    /\ probe.fn = "get_query_embedding"
    /\ probe.prev.made /\ ~probe.prev.ok
    /\ probe.prev.size > 0
    /\ SameNormalized(probe.prev.query, probe.last.query)
    /\ probe.last.ok /\ probe.last.encoded
    /\ probe.last.value = Encode(probe.last.query)

(***************************************************************************)
(* Properties of the similarity search                                     *)
(***************************************************************************)
\* search_chunks has returned a result
ChunksSearched == probe.fn = "search_chunks" /\ probe.done /\ probe.ok

\* search_papers has returned a result
PapersSearched == probe.fn = "search_papers" /\ probe.done /\ probe.ok

\* the positions of the result that hold a chunk of the paper
ResultsOf(paper_id) ==
    {i \in 1..Len(probe.results) : probe.results[i].paper_id = paper_id}

\* C14: whatever the corpus, the query, top_k and max_per_paper >= 0, no
\* paper owns more than max_per_paper chunks of the result of search_chunks.
C14_Diversity ==
    ChunksSearched =>
        \A paper_id \in ChunkPapers :
            Cardinality(ResultsOf(paper_id)) <= probe.max_per_paper

\* order of two similarities that are numbers
Below(x, y) == x.num * y.den < y.num * x.den

\* the similarity of embedding entry i of the chunk corpus to the query
ChunkSimilarity(i) ==
    cosine_similarity(Encode(probe.query), config.chunk_embeddings[i].embedding)

\* the two best chunks belong to paper 1 and the cap is one chunk per paper:
\* the result is one of them followed by the lower-ranked chunk of paper 2
C14_Witness ==
    /\ ChunksSearched
    /\ probe.max_per_paper = 1
    /\ probe.top_k = 2
    /\ Len(probe.results) = 2
    /\ probe.results[1].paper_id = PaperId(1)
    /\ probe.results[2].paper_id = PaperId(2)
    /\ \E i, j \in 1..Len(config.chunk_embeddings) :
          /\ i # j
          /\ config.chunk_embeddings[i].paper_id = PaperId(1)
          /\ config.chunk_embeddings[j].paper_id = PaperId(1)
          /\ {config.chunk_embeddings[i].chunk_id,
              config.chunk_embeddings[j].chunk_id} \subseteq config.chunk_lookup
          /\ Below(probe.results[2].relevance_score, ChunkSimilarity(i))
          /\ Below(probe.results[2].relevance_score, ChunkSimilarity(j))

\* the embedding entries of the paper whose chunk is in the chunk lookup
PresentOf(paper_id) ==
    {i \in 1..Len(config.chunk_embeddings) :
        /\ config.chunk_embeddings[i].paper_id = paper_id
        /\ config.chunk_embeddings[i].chunk_id \in config.chunk_lookup}

\* the number of chunks that the per-paper cap and the lookup let through
AcceptableChunks ==
    SumLen([paper_id \in ChunkPapers |->
               [i \in 1..Min(probe.max_per_paper,
                             Cardinality(PresentOf(paper_id))) |-> i]],
           ChunkPapers)

\* C15: the result of search_chunks holds at most top_k chunks, for every
\* top_k >= 0: exactly top_k when that many ranked chunks are acceptable
\* under the per-paper cap and present in the lookup, all the acceptable
\* ones otherwise.
C15_StopsAtTopK ==
    ChunksSearched =>
        /\ Len(probe.results) <= probe.top_k
        /\ Len(probe.results) = Min(probe.top_k, AcceptableChunks)

\* C15 for a positive top_k: the test of line 430 comes after the append of
\* line 424, so the loop stops at top_k only once a chunk has been looked at
C15_StopsAtPositiveTopK ==
    (ChunksSearched /\ probe.top_k >= 1) =>
        /\ Len(probe.results) <= probe.top_k
        /\ Len(probe.results) = Min(probe.top_k, AcceptableChunks)

\* top_k = 0 and a chunk in the result
C15_ZeroTopK ==
    /\ ChunksSearched
    /\ probe.top_k = 0
    /\ Len(probe.results) = 1

\* two similarities that are numbers are equal
Level(x, y) == x.num * y.den = y.num * x.den

\* the place of the paper in the corpus embedding list
PaperIndex(id) ==
    CHOOSE i \in 1..Len(config.embeddings_data) :
        config.embeddings_data[i].id = id

\* the similarity of the paper to the query
PaperSimilarity(id) ==
    cosine_similarity(Encode(probe.query),
                      config.embeddings_data[PaperIndex(id)].embedding)

\* no embedding of the paper corpus has norm zero
PaperNormsPositive ==
    \A i \in 1..Len(config.embeddings_data) :
        Dot(config.embeddings_data[i].embedding,
            config.embeddings_data[i].embedding) > 0

\* C16: on a corpus whose similarities are all numbers, search_papers
\* returns the papers in non-increasing order of similarity to the query,
\* papers of equal similarity in the order of the corpus embedding list,
\* each with its own similarity as relevance_score.
C16_PaperRanking ==
    (PapersSearched /\ PaperNormsPositive) =>
        /\ \A i, j \in 1..Len(probe.results) :
              i < j =>
                /\ ~Below(probe.results[i].relevance_score,
                          probe.results[j].relevance_score)
                /\ Level(probe.results[i].relevance_score,
                         probe.results[j].relevance_score)
                      => PaperIndex(probe.results[i].id)
                            < PaperIndex(probe.results[j].id)
        /\ \A i \in 1..Len(probe.results) :
              /\ ~probe.results[i].relevance_score.nan
              /\ probe.results[i].relevance_score
                    = PaperSimilarity(probe.results[i].id)

\* the second paper of the corpus is the most similar one and comes first;
\* the first and the third are equally similar and keep their corpus order
C16_Witness ==
    /\ PapersSearched
    /\ PaperNormsPositive
    /\ Len(probe.results) = 3
    /\ probe.results[1].id = PaperId(2)
    /\ probe.results[2].id = PaperId(1)
    /\ probe.results[3].id = PaperId(3)
    /\ Below(probe.results[2].relevance_score,
             probe.results[1].relevance_score)
    /\ Level(probe.results[2].relevance_score,
             probe.results[3].relevance_score)
    /\ config.embeddings_data[1].embedding
          # config.embeddings_data[3].embedding

\* C16 on every corpus: search_papers returns the papers in non-increasing
\* order of similarity to the query, papers of equal similarity in the
\* order of the corpus embedding list, each with its own similarity as
\* relevance_score.
C16_PaperRankingAll ==
    PapersSearched =>
        /\ \A i, j \in 1..Len(probe.results) :
              LET x == probe.results[i].relevance_score
                  y == probe.results[j].relevance_score
              IN  (i < j /\ ~x.nan /\ ~y.nan) =>
                    /\ ~Below(x, y)
                    /\ Level(x, y) => PaperIndex(probe.results[i].id)
                                         < PaperIndex(probe.results[j].id)
        /\ \A i \in 1..Len(probe.results) :
              probe.results[i].relevance_score
                  = PaperSimilarity(probe.results[i].id)

\* a paper with an all-zero embedding stands in the result between a less
\* similar paper before it and a more similar paper after it
C16_NanBetween ==
    /\ PapersSearched
    /\ Len(probe.results) = 3
    /\ probe.results[2].relevance_score.nan
    /\ ~probe.results[1].relevance_score.nan
    /\ ~probe.results[3].relevance_score.nan
    /\ Below(probe.results[1].relevance_score,
             probe.results[3].relevance_score)

\* the similarity is the number 0
IsZero(x) == ~x.nan /\ x.num = 0

\* the vector has norm zero
ZeroNorm(v) == \A i \in 1..Len(v) : v[i] = 0

\* C17: cosine_similarity returns 0 when either vector has norm zero, and
\* a paper or chunk with an all-zero embedding is returned by search_papers
\* and search_chunks with similarity 0.
C17_ZeroNormGuard ==
    /\ (probe.fn = "cosine_similarity" /\ probe.done
            /\ (ZeroNorm(probe.a) \/ ZeroNorm(probe.b)))
          => IsZero(probe.similarity)
    /\ PapersSearched =>
          /\ \A i \in 1..Len(probe.results) :
                ZeroNorm(config.embeddings_data[
                             PaperIndex(probe.results[i].id)].embedding)
                    => IsZero(probe.results[i].relevance_score)
          /\ Len(config.embeddings_data) <= probe.top_k =>
                \A e \in Range(config.embeddings_data) :
                    (ZeroNorm(e.embedding) /\ e.id \in config.papers_lookup)
                        => \E i \in 1..Len(probe.results) :
                              probe.results[i].id = e.id
    /\ ChunksSearched =>
          \A i \in 1..Len(probe.results) :
              \A e \in Range(config.chunk_embeddings) :
                  (e.chunk_id = probe.results[i].chunk_id
                        /\ ZeroNorm(e.embedding))
                      => IsZero(probe.results[i].relevance_score)

\* cosine_similarity has been applied to an all-zero vector and another one
C17_ZeroNormInput ==
    /\ probe.fn = "cosine_similarity"
    /\ probe.done
    /\ ~ZeroNorm(probe.a)
    /\ ZeroNorm(probe.b)
    /\ probe.similarity = NaN

\* C17, what the code does: the similarity is nan exactly when one of the
\* two vectors has norm zero, and a number otherwise
C17_NanOnZeroNorm ==
    (probe.fn = "cosine_similarity" /\ probe.done) =>
        (probe.similarity.nan <=> (ZeroNorm(probe.a) \/ ZeroNorm(probe.b)))

(***************************************************************************)
(* Properties of the generation                                            *)
(***************************************************************************)
\* a /chat request reached generate_response and the collaborator was not
\* configured or raised
Degraded ==
    /\ response.endpoint = "chat"
    /\ response.generation \in {"not_configured", "raised"}

\* the papers that the context names
PapersIn(context) ==
    {context[i].paper : i \in {j \in 1..Len(context) :
                                   context[j].kind = "paper"}}

\* C19: when the generation collaborator is not configured or raises, the
\* /chat request completes (status 200) with the local answer: the first
\* ExcerptLen pieces of the context when the context is not blank, the
\* no-papers message otherwise; with the papers of the context as sources
\* and with remaining_requests.  No failure of /chat comes from generation.
C19_GenerationDegrades ==
    /\ Degraded =>
          /\ response.status = 200
          /\ response.answer =
                IF \E i \in 1..Len(response.context) :
                       response.context[i].kind # "space"
                THEN [kind |-> "local_preview",
                      text |-> [i \in 1..Min(ExcerptLen, Len(response.context))
                                  |-> response.context[i]]]
                ELSE [kind |-> "no_papers", text |-> <<>>]
          /\ Range(response.sources) = PapersIn(response.context)
          /\ response.remaining_requests = response.remaining - 1
          /\ response.remaining_requests >= 0
    /\ (response.endpoint = "chat" /\ response.status = 500) =>
          /\ response.generation = "none"
          /\ response.reason = "retrieval_failed"

\* the collaborator raised on a context longer than the excerpt: the answer
\* is the truncated excerpt, with both papers as sources
C19_Witness ==
    /\ Degraded
    /\ response.generation = "raised"
    /\ response.answer.kind = "local_preview"
    /\ Len(response.context) > ExcerptLen
    /\ Len(response.answer.text) = ExcerptLen
    /\ Len(response.sources) = 2

\* the events that end a stream
Terminal == {"done", "error"}

\* sources first and only first, a terminal event only last
WellFormed(events) ==
    /\ events # <<>> => events[1] = "sources"
    /\ \A i \in 2..Len(events) : events[i] \in {"text"} \cup Terminal
    /\ \A i \in 1..(Len(events) - 1) : events[i] \notin Terminal

\* C18: the events of a /chat/stream response are one sources event, then
\* text events, then at most one terminal event, done or error, after which
\* nothing is emitted; a stream that has ended of itself has its terminal
\* event, and every stream whose client does not cancel it ends of itself.
C18_StreamProtocol ==
    /\ [](\A slot \in Slots :
            /\ WellFormed(streams[slot].events)
            /\ streams[slot].phase = "start" => streams[slot].events = <<>>
            /\ streams[slot].phase = "generate" =>
                  /\ streams[slot].events # <<>>
                  /\ streams[slot].events[Len(streams[slot].events)]
                        \notin Terminal
            /\ streams[slot].phase = "closed" =>
                  /\ Len(streams[slot].events) >= 2
                  /\ streams[slot].events[Len(streams[slot].events)]
                        \in Terminal)
    /\ \A slot \in Slots :
          (streams[slot].phase = "start")
              ~> (streams[slot].phase \in {"closed", "cancelled"})

\* a stream that ended with an error after a fragment
C18_Witness ==
    \E slot \in Slots :
        /\ streams[slot].phase = "closed"
        /\ streams[slot].events = <<"sources", "text", "error">>

\* the events of the local pseudo-stream: the words of the fixed text, one
\* text event each, then done
FallbackEvents ==
    <<"sources">> \o [i \in 1..Len(FALLBACK_TEXT) |-> "text"] \o <<"done">>

\* a prefix of the sequence
IsPrefix(events, whole) ==
    /\ Len(events) <= Len(whole)
    /\ \A i \in 1..Len(events) : events[i] = whole[i]

\* the stream of a response for which no collaborator is configured is the
\* local pseudo-stream and holds no error event
UnconfiguredFallsBack ==
    ~config.project_id =>
        \A slot \in Slots :
            /\ IsPrefix(streams[slot].events, FallbackEvents)
            /\ streams[slot].phase = "closed" =>
                  streams[slot].events = FallbackEvents

\* C20: the stream falls back to the local pseudo-stream, with no error
\* event, when the collaborator is not configured and also when it is
\* configured but raises before it has produced a fragment.
C20_StreamDegrades ==
    /\ UnconfiguredFallsBack
    /\ config.project_id =>
          \A slot \in Slots :
              ~( /\ Len(streams[slot].events) >= 2
                 /\ streams[slot].events[2] = "error" )

\* C20, the unconfigured half, which the code satisfies
C20_UnconfiguredFallsBack == UnconfiguredFallsBack

\* the configured collaborator raised before its first fragment and the
\* stream ended with an error event
C20_RaisedBeforeFragment ==
    /\ config.project_id
    /\ \E slot \in Slots :
          /\ streams[slot].phase = "closed"
          /\ streams[slot].events = <<"sources", "error">>

(***************************************************************************)
(* Properties of the dataset statistics                                    *)
(***************************************************************************)
\* the papers that startup was given
Loaded == probe.files.papers.data

\* the text compute_dataset_stats reads for the species and for the topics
AnimalText(p) == IF p.animal = KeyAbsent THEN <<"Unknown">> ELSE p.animal

TopicsText(p) == IF p.topics = KeyAbsent THEN <<>> ELSE p.topics

\* the tags a text carries: its tokens other than the separators
CarriedTags(text) == Range(text) \ {",", " "}

AllTags(TextOf(_)) ==
    UNION {CarriedTags(TextOf(Loaded[i])) : i \in 1..Len(Loaded)}

\* the number of papers that carry the tag
Carrying(tag, TextOf(_)) ==
    Cardinality({i \in 1..Len(Loaded) : tag \in CarriedTags(TextOf(Loaded[i]))})

\* the number of times the tag is written in the corpus
Occurrences(tag, TextOf(_)) ==
    Cardinality({<<i, j>> \in (1..Len(Loaded)) \X (1..6) :
                    /\ j <= Len(TextOf(Loaded[i]))
                    /\ TextOf(Loaded[i])[j] = tag})

\* where a scan of the corpus first meets the tag
FirstMet(tag, TextOf(_)) ==
    LET places == {i * 10 + j : <<i, j>> \in
                      {<<i, j>> \in (1..Len(Loaded)) \X (1..6) :
                          /\ j <= Len(TextOf(Loaded[i]))
                          /\ TextOf(Loaded[i])[j] = tag}}
    IN  CHOOSE m \in places : \A x \in places : m <= x

\* the table lists every tag once, in order of descending count, tags of
\* equal count in the order in which the scan first meets them
TableOrdered(table, TextOf(_)) ==
    /\ {table[k].key : k \in 1..Len(table)} = AllTags(TextOf)
    /\ Len(table) = Cardinality(AllTags(TextOf))
    /\ \A k \in 1..(Len(table) - 1) :
          \/ table[k].count > table[k + 1].count
          \/ /\ table[k].count = table[k + 1].count
             /\ FirstMet(table[k].key, TextOf)
                    < FirstMet(table[k + 1].key, TextOf)

\* C22: once the statistics are computed, by_species and by_topic list
\* every distinct trimmed non-empty tag with the number of papers carrying
\* it, in order of descending count with ties in first-seen order, and
\* total_papers is the number of papers loaded.
C22_SpeciesTopicTables ==
    probe.fn = "load_data" /\ probe.done =>
        LET stats == config.dataset_stats
        IN  /\ stats.total_papers = Len(Loaded)
            /\ TableOrdered(stats.by_species, AnimalText)
            /\ TableOrdered(stats.by_topic, TopicsText)
            /\ \A k \in 1..Len(stats.by_species) :
                  stats.by_species[k].count
                      = Carrying(stats.by_species[k].key, AnimalText)
            /\ \A k \in 1..Len(stats.by_topic) :
                  stats.by_topic[k].count
                      = Carrying(stats.by_topic[k].key, TopicsText)

\* C22, as the code has it: the count of a tag is the number of times it
\* is written, which exceeds the number of papers when a paper repeats it
C22_TablesCountOccurrences ==
    probe.fn = "load_data" /\ probe.done =>
        LET stats == config.dataset_stats
        IN  /\ stats.total_papers = Len(Loaded)
            /\ TableOrdered(stats.by_species, AnimalText)
            /\ TableOrdered(stats.by_topic, TopicsText)
            /\ \A k \in 1..Len(stats.by_species) :
                  stats.by_species[k].count
                      = Occurrences(stats.by_species[k].key, AnimalText)
            /\ \A k \in 1..Len(stats.by_topic) :
                  stats.by_topic[k].count
                      = Occurrences(stats.by_topic[k].key, TopicsText)

\* a paper repeats a species tag, and the table counts it twice
C22_RepeatedTag ==
    /\ probe.fn = "load_data"
    /\ probe.done
    /\ \E k \in 1..Len(config.dataset_stats.by_species) :
          config.dataset_stats.by_species[k].count
              > Carrying(config.dataset_stats.by_species[k].key, AnimalText)

\* the years of the papers that have one
YearsOf == {Loaded[i].year : i \in 1..Len(Loaded)} \ {0}

PapersOfYear(year) ==
    Cardinality({i \in 1..Len(Loaded) : Loaded[i].year = year})

\* the first paper of the corpus with this year
FirstOfYear(year) ==
    CHOOSE i \in 1..Len(Loaded) :
        /\ Loaded[i].year = year
        /\ \A j \in 1..(i - 1) : Loaded[j].year # year

\* by_year lists every year once, with the number of its papers
YearsCounted(by_year) ==
    /\ {by_year[k].key : k \in 1..Len(by_year)} = YearsOf
    /\ Len(by_year) = Cardinality(YearsOf)
    /\ \A k \in 1..Len(by_year) : by_year[k].count = PapersOfYear(by_year[k].key)

\* the scenario: three papers, one of 2020 and two of 2021, in any order
YearScenario ==
    /\ Len(Loaded) = 3
    /\ PapersOfYear(2020) = 1
    /\ PapersOfYear(2021) = 2

YearScenarioResult ==
    /\ config.dataset_stats.total_papers = 3
    /\ config.dataset_stats.by_year
           = <<[key |-> 2021, count |-> 2], [key |-> 2020, count |-> 1]>>

\* C23: by_year maps each year to its paper count, in order of descending
\* frequency with ties in first-seen order; for the years {2020, 2021, 2021}
\* it is {2021: 2, 2020: 1} with total_papers = 3.
C23_YearsByFrequency ==
    probe.fn = "load_data" /\ probe.done =>
        LET by_year == config.dataset_stats.by_year
        IN  /\ YearsCounted(by_year)
            /\ \A k \in 1..(Len(by_year) - 1) :
                  \/ by_year[k].count > by_year[k + 1].count
                  \/ /\ by_year[k].count = by_year[k + 1].count
                     /\ FirstOfYear(by_year[k].key)
                            < FirstOfYear(by_year[k + 1].key)
            /\ YearScenario => YearScenarioResult

\* C23, amended: by_year maps each year to its paper count, the most recent
\* year first whatever the counts; for the years {2020, 2021, 2021} it is
\* {2021: 2, 2020: 1} with total_papers = 3.
C23_YearsByRecency ==
    probe.fn = "load_data" /\ probe.done =>
        LET by_year == config.dataset_stats.by_year
        IN  /\ YearsCounted(by_year)
            /\ \A k \in 1..(Len(by_year) - 1) :
                  by_year[k].key > by_year[k + 1].key
            /\ YearScenario => YearScenarioResult

\* a more recent year with fewer papers is listed ahead of an older one
C23_Witness ==
    /\ probe.fn = "load_data"
    /\ probe.done
    /\ \E k \in 1..(Len(config.dataset_stats.by_year) - 1) :
          config.dataset_stats.by_year[k].count
              < config.dataset_stats.by_year[k + 1].count

\* the lines of one table in a rendering
LinesOf(rendering, kind) == SelectSeq(rendering, LAMBDA piece : piece.kind = kind)

\* the years a rendering lists
ListedYears(rendering) ==
    {LinesOf(rendering, "year")[k].paper[2] :
         k \in 1..Len(LinesOf(rendering, "year"))}

\* C24: the rendering lists at most YearsShown year entries (ten in the
\* source), which are the most recent years that occur in the corpus, all
\* of them when fewer occur; every species and every topic is listed.
C24_YearTruncation ==
    probe.fn = "load_data" /\ probe.rendered =>
        LET listed == ListedYears(probe.rendering)
        IN  /\ Len(LinesOf(probe.rendering, "year")) <= YearsShown
            /\ Len(LinesOf(probe.rendering, "year")) = Cardinality(listed)
            /\ listed \subseteq YearsOf
            /\ Cardinality(listed) = Min(YearsShown, Cardinality(YearsOf))
            /\ \A y \in listed, z \in YearsOf \ listed : y > z
            /\ \A k \in 1..Len(LinesOf(probe.rendering, "year")) :
                  LinesOf(probe.rendering, "year")[k].n
                      = PapersOfYear(LinesOf(probe.rendering, "year")[k].paper[2])
            /\ {LinesOf(probe.rendering, "species")[k].paper[1] :
                    k \in 1..Len(LinesOf(probe.rendering, "species"))}
                   = AllTags(AnimalText)
            /\ {LinesOf(probe.rendering, "topic")[k].paper[1] :
                    k \in 1..Len(LinesOf(probe.rendering, "topic"))}
                   = AllTags(TopicsText)

\* more years occur than are listed, and more species than years are listed
C24_Witness ==
    /\ probe.fn = "load_data"
    /\ probe.rendered
    /\ Cardinality(YearsOf) > YearsShown
    /\ Cardinality(ListedYears(probe.rendering)) = YearsShown
    /\ Len(LinesOf(probe.rendering, "species")) > YearsShown

(***************************************************************************)
(* Properties of startup and of the routing of questions                   *)
(***************************************************************************)
\* the question holds a keyword of META_KEYWORDS, in whatever case
MetaAsked(question) ==
    \E i \in 1..Len(question) : question[i] \in {"How many", "dataset"}

\* this step is a run of one of the two handlers on this input
HandlerStep(request, question, encodeOk) ==
    \/ Chat(request, question, encodeOk, TRUE)
    \/ \E slot \in Slots : ChatStream(request, question, encodeOk, slot)

\* the papers that paper-level search can return: those with an embedding
\* and an entry in the papers file (fewer than TOP_K_PAPERS here)
Searchable ==
    {probe.files.embeddings.data[i].id :
         i \in 1..Len(probe.files.embeddings.data)}
        \cap {Loaded[i].id : i \in 1..Len(Loaded)}

\* the context is the rendering of the statistics, then the heading of
\* the sample, then the papers of paper-level search
MetaContext(resp) ==
    /\ "search_papers" \in Range(resp.trace)
    /\ "search_chunks" \notin Range(resp.trace)
    /\ Len(LinesOf(resp.context, "heading")) = 1
    /\ LET at == CHOOSE i \in 1..Len(resp.context) :
                     resp.context[i].kind = "heading"
           block == SubSeq(resp.context, 1, at - 2)
           sample == SubSeq(resp.context, at + 2, Len(resp.context))
       IN  /\ at >= 2 /\ at < Len(resp.context)
           /\ resp.context[at - 1] = Space
           /\ resp.context[at + 1] = Space
           /\ \A i \in 1..Len(block) :
                 block[i].kind \in {"stats", "species", "topic", "year"}
           /\ Loaded # <<>> =>
                 /\ block # <<>>
                 /\ block[1].kind = "stats"
                 /\ block[1].n = Len(Loaded)
           /\ {LinesOf(block, "species")[k].paper[1] :
                   k \in 1..Len(LinesOf(block, "species"))} = AllTags(AnimalText)
           /\ {LinesOf(block, "topic")[k].paper[1] :
                   k \in 1..Len(LinesOf(block, "topic"))} = AllTags(TopicsText)
           /\ \A i \in 1..Len(sample) : sample[i].kind \in {"paper", "rule"}
           /\ PapersIn(sample) = Searchable

\* C21: a question that holds a keyword of META_KEYWORDS in any case is
\* classified meta; for it both endpoints build the context from the
\* rendering of the statistics, with every species and every topic entry,
\* followed by the sample of paper-level search; chunk search is not used
\* even when the chunk index is loaded, and the statistics are there
\* whatever the search returns.
C21_MetaContext ==
    [][\A request \in AnswerRequests, question \in StartupQuestions,
          encodeOk \in BOOLEAN :
            /\ HandlerStep(request, question, encodeOk)
            /\ MetaAsked(question)
            /\ response'.status = 200
            => MetaContext(response')]_vars

\* a meta question is answered by /chat/stream with the chunk index loaded
C21_Witness ==
    /\ Started
    /\ response.status = 200
    /\ response.endpoint = "chat_stream"
    /\ Len(LinesOf(response.context, "heading")) = 1
    /\ Len(LinesOf(response.context, "species")) >= 2
    /\ config.use_chunks
    /\ config.chunk_lookup # {}
    /\ PapersIn(response.context) # {}

\* the chunks file or the chunk-embeddings file is missing, or no chunk
\* embedding was loaded
ChunkDataAbsent ==
    \/ ~probe.files.chunks.exists
    \/ ~probe.files.chunk_embeddings.exists
    \/ probe.files.chunk_embeddings.data = <<>>

\* the handler that has just run answered a question that is not meta
AnsweredPlain ==
    /\ Started
    /\ response.status = 200
    /\ LinesOf(response.context, "heading") = <<>>

ByPaperSearch ==
    /\ "search_papers" \in Range(response.trace)
    /\ "search_chunks" \notin Range(response.trace)

\* load_data runs to its end on the files of this startup, whichever of
\* them are absent: it yields the lookups of the files that exist, empty
\* ones for the others, and statistics exactly when there are papers
StartupCompletes ==
    probe.fn = "load_data" /\ ~probe.done =>
        LET loaded == load_data(probe.files, config.project_id)
        IN  /\ Cardinality(loaded.papers_lookup) = Len(probe.files.papers.data)
            /\ Cardinality(loaded.chunk_lookup) = Len(probe.files.chunks.data)
            /\ Len(loaded.embeddings_data) = Len(probe.files.embeddings.data)
            /\ Len(loaded.chunk_embeddings)
                   = Len(probe.files.chunk_embeddings.data)
            /\ loaded.dataset_stats.computed = probe.files.papers.exists
            /\ loaded.use_chunks \in BOOLEAN

\* C25: startup completes for every combination of present and absent
\* corpus files, and whenever chunk data is absent (chunks file missing,
\* chunk-embeddings file missing, or no chunk embedding loaded) a question
\* that is not meta is served by paper-level search, never by chunk search.
C25_DegradesToPaperSearch ==
    /\ StartupCompletes
    /\ AnsweredPlain /\ ChunkDataAbsent => ByPaperSearch

\* C25, as the code has it: startup completes, and paper-level search
\* serves the question when the chunk-embeddings file is missing
C25_DegradesWithoutEmbeddingsFile ==
    /\ StartupCompletes
    /\ AnsweredPlain /\ ~probe.files.chunk_embeddings.exists => ByPaperSearch

\* the chunks file is missing, the papers and their embeddings are loaded,
\* and a question is answered from a chunk search that found nothing
C25_EmptyChunkSearch ==
    /\ Started
    /\ ~probe.files.chunks.exists
    /\ probe.files.papers.exists
    /\ probe.files.embeddings.exists
    /\ response.status = 200
    /\ "search_chunks" \in Range(response.trace)
    /\ response.context = <<>>

(***************************************************************************)
(* Properties of the outcomes that clients receive                         *)
(***************************************************************************)
\* what a client has of a response: the status code and the detail
View(outcome) == <<outcome.status, outcome.detail>>

\* the response that has just been produced rejects its request with an
\* error status and a detail
RejectionTold ==
    response # NoResponse /\ response.status # 200 =>
        /\ response.status \in {403, 429, 500, 503}
        /\ response.detail # ""
        /\ response.reason \in {"unauthorized_origin", "hourly_limit",
                                "daily_limit", "global_limit",
                                "retrieval_failed"}

\* C26: every rejected request ends in an error outcome, and the five
\* causes (unauthorized origin, hourly limit, daily limit, global limit,
\* retrieval failure) are pairwise distinguishable by the client from the
\* status code and the detail it receives.
C26_DistinguishableDenials ==
    /\ RejectionTold
    /\ probe.fn = "client" =>
          \A x \in probe.read, y \in probe.read :
              x.cause # y.cause => View(x) # View(y)

\* the hourly and the daily limit are one cause for the client
DenialClass(cause) ==
    IF cause \in {"hourly_limit", "daily_limit"} THEN "rate_limit" ELSE cause

\* C26, as the code has it: the client can tell the unauthorized origin,
\* the rate limit (hourly or daily), the global limit and the retrieval
\* failure from one another, by the status code alone
C26_DenialClasses ==
    /\ RejectionTold
    /\ probe.fn = "client" =>
          \A x \in probe.read, y \in probe.read :
              DenialClass(x.cause) # DenialClass(y.cause) => x.status # y.status

\* clients have been denied for the hourly and for the daily limit, and
\* have read the same status and the same detail
C26_HourlyAndDailyRead ==
    /\ probe.fn = "client"
    /\ \E x \in probe.read, y \in probe.read :
          /\ x.cause = "hourly_limit"
          /\ y.cause = "daily_limit"
          /\ View(x) = View(y)


(***************************************************************************)
(* Properties of the chunk selection and of the paper result set           *)
(***************************************************************************)
\* the place of the chunk in the chunk embedding list
ChunkIndex(chunk_id) ==
    CHOOSE i \in 1..Len(config.chunk_embeddings) :
        config.chunk_embeddings[i].chunk_id = chunk_id

\* the places in the chunk embedding list of the chunks of the result
AcceptedChunks ==
    {ChunkIndex(probe.results[k].chunk_id) : k \in 1..Len(probe.results)}

\* embedding entry i ranks above entry j: it is more similar to the query,
\* or as similar and earlier in the list
Outranks(i, j) ==
    LET x == ChunkSimilarity(i)
        y == ChunkSimilarity(j)
    IN  /\ ~x.nan
        /\ ~y.nan
        /\ Below(y, x) \/ (Level(x, y) /\ i < j)

\* the accepted chunks of the paper of entry i that rank above it
AcceptedAbove(i) ==
    {j \in AcceptedChunks :
        /\ config.chunk_embeddings[j].paper_id
              = config.chunk_embeddings[i].paper_id
        /\ Outranks(j, i)}

\* the accepted chunks of the paper of entry i
AcceptedOf(i) ==
    {j \in AcceptedChunks :
        config.chunk_embeddings[j].paper_id
            = config.chunk_embeddings[i].paper_id}

\* no embedding of the chunk corpus has norm zero
ChunkNormsPositive ==
    \A i \in 1..Len(config.chunk_embeddings) :
        Dot(config.chunk_embeddings[i].embedding,
            config.chunk_embeddings[i].embedding) > 0

\* the result of search_chunks is the greedy walk of the chunks in
\* descending order of similarity
GreedyWalk ==
    /\ \A k, l \in 1..Len(probe.results) :
          k < l =>
            LET x == probe.results[k].relevance_score
                y == probe.results[l].relevance_score
            IN  ~(~x.nan /\ ~y.nan /\ Below(x, y))
    /\ \A k \in 1..Len(probe.results) :
          /\ probe.results[k].chunk_id \in config.chunk_lookup
          /\ probe.results[k].relevance_score
                = ChunkSimilarity(ChunkIndex(probe.results[k].chunk_id))
    /\ \A i \in 1..Len(config.chunk_embeddings) :
          (/\ config.chunk_embeddings[i].chunk_id \in config.chunk_lookup
           /\ i \notin AcceptedChunks
           /\ probe.results # <<>>
           /\ Outranks(i, ChunkIndex(
                              probe.results[Len(probe.results)].chunk_id)))
              => Cardinality(AcceptedAbove(i)) >= probe.max_per_paper
    /\ Len(probe.results) < probe.top_k =>
          \A i \in 1..Len(config.chunk_embeddings) :
              (/\ config.chunk_embeddings[i].chunk_id \in config.chunk_lookup
               /\ i \notin AcceptedChunks)
                  => Cardinality(AcceptedOf(i)) >= probe.max_per_paper

\* C27: the result of search_chunks is in non-increasing order of
\* similarity and is the greedy walk of the ranked list: a chunk with a
\* corpus match that ranks above the last accepted chunk is left out only
\* when its paper already has max_per_paper accepted chunks ranking above
\* it, and a chunk id without a corpus match is never returned and uses up
\* neither top_k nor the cap of its paper.
C27_GreedySelection == ChunksSearched => GreedyWalk

\* C27 on a chunk corpus whose similarities are all numbers
C27_GreedyOnNumbers == (ChunksSearched /\ ChunkNormsPositive) => GreedyWalk

\* a chunk with an all-zero embedding stands in the result between a less
\* similar chunk before it and a more similar chunk after it
C27_NanBetween ==
    /\ ChunksSearched
    /\ Len(probe.results) = 3
    /\ probe.results[2].relevance_score.nan
    /\ ~probe.results[1].relevance_score.nan
    /\ ~probe.results[3].relevance_score.nan
    /\ Below(probe.results[1].relevance_score,
             probe.results[3].relevance_score)


\* the embedding entries of the paper corpus with their similarity to the
\* query, in the order the sort of search_papers leaves them in
RankedPapers ==
    SortDescending(
        [i \in 1..Len(config.embeddings_data) |->
            [id |-> config.embeddings_data[i].id,
             similarity |->
                 cosine_similarity(Encode(probe.query),
                                   config.embeddings_data[i].embedding)]])

\* the top_k highest-ranked embedding entries
CutAtTopK == SubSeq(RankedPapers, 1, Min(probe.top_k, Len(RankedPapers)))

\* the rank of embedding entry i on a corpus whose similarities are all
\* numbers: one more than the number of entries that are more similar to
\* the query, or as similar and earlier in the list
PaperRank(i) ==
    LET x == cosine_similarity(Encode(probe.query),
                               config.embeddings_data[i].embedding)
    IN  1 + Cardinality(
              {j \in 1..Len(config.embeddings_data) :
                  LET y == cosine_similarity(
                               Encode(probe.query),
                               config.embeddings_data[j].embedding)
                  IN  Below(x, y) \/ (Level(x, y) /\ j < i)})

\* the ids of the result, in the order of the result
ResultIds == [k \in 1..Len(probe.results) |-> probe.results[k].id]

\* C28: the result of search_papers is the sub-sequence, in rank order, of
\* the top_k highest-ranked embedding entries whose id is in the paper
\* lookup: it has at most top_k entries, an id without a match is dropped
\* after the cut at top_k, and no entry ranked below top_k takes its place.
C28_ResultSet ==
    PapersSearched =>
        LET found == SelectSeq(CutAtTopK,
                               LAMBDA e : e.id \in config.papers_lookup)
        IN  /\ Len(probe.results) <= probe.top_k
            /\ ResultIds = [k \in 1..Len(found) |-> found[k].id]
            /\ PaperNormsPositive =>
                  /\ \A i \in 1..Len(config.embeddings_data) :
                        (config.embeddings_data[i].id \in Range(ResultIds))
                            <=> /\ PaperRank(i) <= probe.top_k
                                /\ config.embeddings_data[i].id
                                      \in config.papers_lookup
                  /\ \A k, l \in 1..Len(ResultIds) :
                        k < l => PaperRank(PaperIndex(ResultIds[k]))
                                    < PaperRank(PaperIndex(ResultIds[l]))

\* one of the two best papers of three has no match in the lookup: the
\* result is the other one alone, and the third paper, which has a match,
\* is not returned
C28_Witness ==
    /\ PapersSearched
    /\ PaperNormsPositive
    /\ probe.top_k = 2
    /\ Len(config.embeddings_data) = 3
    /\ Len(probe.results) = 1
    /\ \E i, j \in 1..3 :
          /\ PaperRank(i) <= 2
          /\ config.embeddings_data[i].id \notin config.papers_lookup
          /\ PaperRank(j) = 3
          /\ config.embeddings_data[j].id \in config.papers_lookup
          /\ config.embeddings_data[j].id \notin Range(ResultIds)


(***************************************************************************)
(* Properties of the quota over time                                       *)
(***************************************************************************)
\* no request of the IP has been admitted during the last window seconds
Quiet(ip, window) == probe.last[ip] = -1 \/ clock - probe.last[ip] >= window

\* C29: a denial is never permanent.  When no request of an IP has been
\* admitted for HourSecs seconds or more, the next request of that IP with
\* an allowed origin is not denied with hourly_limit; when no request at
\* all has been admitted for DaySecs seconds or more, the next request with
\* an allowed origin, from any IP, is admitted.  Nothing but the passage of
\* time is needed.
C29_DenialNotPermanent ==
    [][\A request \in ClientRequests :
          (Chat(request, <<"gaze">>, TRUE, TRUE) /\ validate_origin(request))
              => /\ Quiet(get_client_ip(request), HourSecs)
                    => response'.reason # "hourly_limit"
                 /\ (\A ip \in IPs : Quiet(ip, DaySecs))
                    => /\ response'.status = 200
                       /\ response'.reason = "ok"]_vars

\* an IP whose last request was denied is admitted once a day has passed
\* since the last admission of every IP
C29_Witness ==
    /\ probe.fn = "quota"
    /\ response.status = 200
    /\ probe.denied[response.ip]
    /\ probe.last[response.ip] >= 0
    /\ \A ip \in IPs : Quiet(ip, DaySecs)


(***************************************************************************)
(* Properties of the quota of failed requests                              *)
(***************************************************************************)
\* this step is a run of a handler that recorded its request and then
\* failed in retrieval, or degraded in generation
FailedAfterAdmission ==
    /\ HandlerRan
    /\ \/ response'.status = 500
       \/ response'.status = 200
            /\ response'.generation \in {"raised", "not_configured"}

\* the timestamps that the windows of the quota check still cover
Live == {t \in 0..clock : clock' - t < DaySecs}

\* C30: quota is consumed at admission and never refunded.  A handler that
\* admits its request and then fails in retrieval (status 500) or degrades
\* in generation leaves the current time exactly once more in the sequence
\* of its IP and in the global sequence; no handler removes a timestamp
\* that a window still covers; and no later step, the error event of a
\* stream included, changes either sequence.
C30_NoRefund ==
    [][ /\ FailedAfterAdmission =>
            /\ CountOf(request_counts'[response'.ip], clock)
                  = CountOf(request_counts[response'.ip], clock) + 1
            /\ CountOf(global_request_times', clock)
                  = CountOf(global_request_times, clock) + 1
        /\ \A t \in Live :
            /\ \A ip \in IPs :
                  CountOf(request_counts'[ip], t)
                      >= CountOf(request_counts[ip], t)
            /\ CountOf(global_request_times', t)
                  >= CountOf(global_request_times, t)
        /\ ~HandlerRan =>
            /\ request_counts' = request_counts
            /\ global_request_times' = global_request_times ]_vars

\* a request failed in retrieval after its admission, and its timestamp is
\* the one that brings its IP to the hourly ceiling
C30_Witness ==
    /\ response.status = 500
    /\ response.reason = "retrieval_failed"
    /\ CountOf(request_counts[response.ip], clock) = RATE_LIMIT
    /\ CountOf(global_request_times, clock) = RATE_LIMIT

\* the stream of an admitted request has ended with an error event and the
\* timestamp of the request is in both sequences
C30_StreamErrorCounted ==
    \E slot \in Slots :
        /\ streams[slot].phase = "closed"
        /\ "error" \in Range(streams[slot].events)
        /\ request_counts[streams[slot].ip] # <<>>
        /\ global_request_times # <<>>

====
